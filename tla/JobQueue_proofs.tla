--------------------------- MODULE JobQueue_proofs ---------------------------
(* Proofs that the properties of JobQueue hold for every set of jobs,      *)
(* processors, lease tokens and operators and for every configuration. Then *)
(* the same of LearnerImport, whose steps are steps of the queue, and of   *)
(* the records administrators write beside; and of the uploads of badges   *)
(* (MigrationUpload).                                                      *)
EXTENDS LearnerImport, MigrationUpload, FiniteSetTheorems, TLAPS

(* The inductive invariant, in named parts. *)

\* A processor between runs holds nothing; one in a run has a token of its own.
RunState ==
    \A w \in Workers :
        /\ clock[w] <= now
        /\ phase[w] = "idle" <=> token[w] = NoToken
        /\ phase[w] \in {"idle", "select", "lease"} => batch[w] = {}
        /\ phase[w] \notin {"complete", "fail"} => job[w] = {}
        /\ \A m, n \in job[w] : m = n

TokensDiffer ==
    \A v, w \in Workers : token[v] = token[w] /\ token[v] # NoToken => v = w

\* The lease a processor wrote ends LeaseSeconds after its clock.
LeaseEnds ==
    \A w \in Workers : \A m \in Jobs :
        token[w] # NoToken /\ row[m].leaseToken = token[w]
            => row[m].leasedUntil = clock[w] + LeaseSeconds

\* Until a lease runs out, its row still carries the token, unless a stale retry
\* has cleared it.
LeaseKept ==
    \A w \in Workers : \A m \in Jobs \ strayed :
        HoldsLease(w, m) => row[m].leaseToken = token[w]

\* A failed row has used its attempts, so no lease UPDATE touches it.
FailedIsExhausted ==
    \A m \in Jobs : row[m].status = "failed" => row[m].attempts >= MaxAttempts

\* What a retry picked is failed until another retry resets it.
PickedAreFailed ==
    \A o \in Operators : \A m \in picked[o] : row[m].status = "failed" \/ m \in overtaken[o]

\* Only rows that were inserted are leased or picked, and a row starts with no attempts.
RowsExist ==
    /\ \A o \in Operators : \A m \in picked[o] : row[m].status # "absent"
    /\ \A w \in Workers : \A m \in todo[w] : row[m].status # "absent"
    /\ \A m \in Jobs : row[m].status = "absent" => row[m].attempts = 0

AttemptsCounted ==
    \A m \in Jobs : /\ row[m].attempts <= MaxAttempts
                    /\ leases[m] <= MaxAttempts * resets[m] + row[m].attempts

\* A message being completed was handled.
HandledFirst ==
    \A w \in Workers : phase[w] = "complete" => \A m \in job[w] : effects[m] >= 1

IInv ==
    /\ TypeOK
    /\ RunState
    /\ TokensDiffer
    /\ LeaseEnds
    /\ LeaseKept
    /\ FailedIsExhausted
    /\ PickedAreFailed
    /\ RowsExist
    /\ AttemptsCounted
    /\ HandledFirst
    /\ CompletedMeansDone

\* One row is rewritten and the others are left alone.
RowBecomes(m, status, attempts, leasedUntil, leaseToken) ==
    /\ row' \in [Jobs -> Row]
    /\ \A n \in Jobs \ {m} : row'[n] = row[n]
    /\ row'[m].status = status
    /\ row'[m].attempts = attempts
    /\ row'[m].leasedUntil = leasedUntil
    /\ row'[m].leaseToken = leaseToken

USE DEF NoTime, NoToken, retryVars

-----------------------------------------------------------------------------

LEMMA FreshTokenIsFresh ==
    ASSUME Tokens \ LiveTokens # {}
    PROVE  FreshToken \in Tokens /\ FreshToken \notin LiveTokens
  BY DEF FreshToken

(* What the UPDATE statements make of a row.                               *)

LEMMA LeasedRow ==
    ASSUME NEW r \in Row, NEW until \in Nat, NEW t \in Tokens
    PROVE  LET q == Leased(r, until, t) IN
           /\ q \in Row /\ q.status = "processing" /\ q.attempts = r.attempts + 1
           /\ q.leasedUntil = until /\ q.leaseToken = t
<1>1. \A n \in Nat : [r EXCEPT !.status = "processing", !.attempts = n,
                              !.leasedUntil = until, !.leaseToken = t] \in Row
  BY DEF Row, Statuses
<1>2. r.attempts + 1 \in Nat
  BY DEF Row
<1> QED
  BY <1>1, <1>2 DEF Leased, Row

LEMMA CompletedRow ==
    ASSUME NEW r \in Row
    PROVE  LET q == Completed(r) IN
           /\ q \in Row /\ q.status = "completed" /\ q.attempts = r.attempts
           /\ q.leasedUntil = NoTime /\ q.leaseToken = NoToken
  BY DEF Completed, Unleased, Row, Statuses

LEMMA FailedRow ==
    ASSUME NEW r \in Row, now \in Nat
    PROVE  LET q == Failed(r) IN
           /\ q \in Row /\ q.attempts = r.attempts
           /\ q.status = IF r.attempts >= MaxAttempts THEN "failed" ELSE "pending"
           /\ q.leasedUntil = NoTime /\ q.leaseToken = NoToken
<1>1. now + RetryDelay \in Nat
  BY ConfigAssumption
<1> QED
  BY <1>1 DEF Failed, Unleased, Row, Statuses

LEMMA ReopenedRow ==
    ASSUME NEW r \in Row, NEW t \in Nat
    PROVE  LET q == Reopened(r, t) IN
           /\ q \in Row /\ q.status = "pending" /\ q.attempts = 0
           /\ q.leasedUntil = NoTime /\ q.leaseToken = NoToken
  BY DEF Reopened, Unleased, Row, Statuses

LEMMA InitInv == Init => IInv
  BY JobsAssumption, ConfigAssumption, BoundsAssumption
  DEF Init, IInv, TypeOK, RunState, TokensDiffer, LeaseEnds, LeaseKept, HoldsLease,
      GivenUp, FailedIsExhausted, PickedAreFailed, RowsExist, AttemptsCounted,
      HandledFirst, CompletedMeansDone, Row, NoRow, Statuses, Phases

LEMMA EnqueueInv ==
    ASSUME IInv, NEW m \in Jobs, Enqueue(m)
    PROVE  IInv'
<1>1. RowBecomes(m, "pending", 0, NoTime, NoToken)
  BY DEF IInv, TypeOK, RunState, Row, NoRow, Statuses, RowBecomes, Enqueue
<1>2. /\ row' \in [Jobs -> Row]
      /\ \A n \in Jobs :
           /\ row'[n].status = "processing" <=> row'[n].leaseToken # NoToken
           /\ row'[n].leasedUntil = NoTime <=> row'[n].leaseToken = NoToken
  BY <1>1 DEF IInv, TypeOK, RowBecomes
<1>3. TypeOK'
  BY <1>2 DEF IInv, TypeOK, Phases, Enqueue, workerVars, historyVars
<1>4. LeaseEnds'
  BY <1>1
  DEF IInv, TypeOK, RunState, LeaseEnds, TokensDiffer, Enqueue, RowBecomes,
      workerVars, historyVars
<1>5. LeaseKept'
  BY <1>1
  DEF IInv, TypeOK, RunState, LeaseKept, LeaseEnds, HoldsLease, GivenUp,
      TokensDiffer, Enqueue, workerVars, historyVars
<1>6. FailedIsExhausted'
  BY <1>1 DEF IInv, TypeOK, FailedIsExhausted, Enqueue, workerVars, historyVars
<1>7. PickedAreFailed'
  BY <1>1
  DEF IInv, TypeOK, PickedAreFailed, FailedIsExhausted, Enqueue, workerVars,
      historyVars
<1>8. RowsExist'
  BY <1>1
  DEF IInv, TypeOK, RowsExist, PickedAreFailed, Enqueue, workerVars, historyVars
<1>9. AttemptsCounted'
  BY <1>1
  DEF IInv, TypeOK, AttemptsCounted, RowsExist, Enqueue, RowBecomes, workerVars,
      historyVars
<1>10. CompletedMeansDone'
  BY <1>1
  DEF IInv, TypeOK, CompletedMeansDone, HandledFirst, RunState, Enqueue, workerVars,
      historyVars
<1>11. /\ RunState'
      /\ TokensDiffer'
      /\ HandledFirst'
  BY DEF IInv, TypeOK, RunState, TokensDiffer, HandledFirst, Enqueue, workerVars,
         historyVars
<1> QED
  BY <1>2, <1>3, <1>4, <1>5, <1>6, <1>7, <1>8, <1>9, <1>10, <1>11 DEF IInv

LEMMA BeginRunInv ==
    ASSUME IInv, NEW w \in Workers, BeginRun(w)
    PROVE  IInv'
<1>1. PICK t \in Tokens : t = FreshToken /\ t \notin LiveTokens
  BY FreshTokenIsFresh DEF BeginRun
<1>2. /\ token'[w] = t /\ clock'[w] = now /\ phase'[w] = "select"
      /\ \A v \in Workers \ {w} :
             token'[v] = token[v] /\ clock'[v] = clock[v] /\ phase'[v] = phase[v]
      /\ UNCHANGED <<row, now, todo, batch, job, retryVars, historyVars, crashes>>
  BY <1>1 DEF BeginRun, IInv, TypeOK
<1>3. /\ \A m \in Jobs : row[m].leaseToken # t
      /\ \A v \in Workers : token[v] # t
  BY <1>1 DEF LiveTokens
<1>4. RunState'
  BY <1>2, <1>3 DEF IInv, TypeOK, RunState, BeginRun, historyVars
<1>5. TokensDiffer'
  BY <1>2, <1>3 DEF IInv, TypeOK, TokensDiffer
<1>6. LeaseEnds'
  BY <1>2, <1>3 DEF IInv, TypeOK, LeaseEnds
<1>7. LeaseKept'
  BY FreshTokenIsFresh
  DEF IInv, TypeOK, RunState, LeaseKept, LeaseEnds, HoldsLease, GivenUp,
      TokensDiffer, BeginRun, LiveTokens, historyVars
<1>8. /\ TypeOK'
      /\ FailedIsExhausted'
      /\ PickedAreFailed'
      /\ RowsExist'
      /\ AttemptsCounted'
      /\ HandledFirst'
      /\ CompletedMeansDone'
  BY FreshTokenIsFresh
  DEF IInv, TypeOK, Phases, FailedIsExhausted, PickedAreFailed, RowsExist,
      AttemptsCounted, HandledFirst, RunState, CompletedMeansDone, BeginRun,
      LiveTokens, historyVars
<1> QED
  BY <1>4, <1>5, <1>6, <1>7, <1>8 DEF IInv

LEMMA SelectCandidatesInv ==
    ASSUME IInv, NEW w \in Workers, SelectCandidates(w)
    PROVE  IInv'
<1>1. TypeOK'
  BY DEF IInv, TypeOK, Phases, SelectCandidates, OldestFirst, Eligible, historyVars
<1>2. RunState'
  BY DEF IInv, TypeOK, RunState, SelectCandidates, OldestFirst, Eligible,
         historyVars
<1>3. RowsExist'
  BY DEF IInv, TypeOK, RowsExist, PickedAreFailed, SelectCandidates, OldestFirst,
         Eligible, historyVars
<1>4. /\ TokensDiffer'
      /\ LeaseEnds'
      /\ LeaseKept'
      /\ FailedIsExhausted'
      /\ PickedAreFailed'
      /\ AttemptsCounted'
      /\ HandledFirst'
      /\ CompletedMeansDone'
  BY DEF IInv, TypeOK, TokensDiffer, RunState, LeaseEnds, LeaseKept, HoldsLease,
         GivenUp, FailedIsExhausted, PickedAreFailed, AttemptsCounted, RowsExist,
         HandledFirst, CompletedMeansDone, SelectCandidates, OldestFirst, Eligible,
         historyVars
<1> QED
  BY <1>1, <1>2, <1>3, <1>4 DEF IInv

LEMMA LeaseCandidateInv ==
    ASSUME IInv, NEW w \in Workers, NEW m \in Jobs, LeaseCandidate(w, m)
    PROVE  IInv'
<1>1. token[w] \in Tokens /\ clock[w] + LeaseSeconds \in Nat
  BY ConfigAssumption DEF IInv, TypeOK, RunState, LeaseCandidate
<1>2. Leasable(row[m], clock[w])
       => /\ row[m].status # "failed" /\ row[m].attempts < MaxAttempts
          /\ row[m].leasedUntil = NoTime \/ row[m].leasedUntil <= clock[w]
  BY ConfigAssumption DEF IInv, TypeOK, FailedIsExhausted, Leasable, Row
<1>3. ASSUME Leasable(row[m], clock[w])
      PROVE  RowBecomes(m, "processing", row[m].attempts + 1,
                        clock[w] + LeaseSeconds, token[w])
  <2>1. row' = [row EXCEPT ![m] =
                   Leased(row[m], clock[w] + LeaseSeconds, token[w])]
    BY <1>3 DEF LeaseCandidate
  <2>2. PICK old, until, t : old = row[m] /\ until = clock[w] + LeaseSeconds /\ t = token[w]
    OBVIOUS
  <2>3. PICK q : q = Leased(old, until, t)
    OBVIOUS
  <2>4. old \in Row
    BY <2>2 DEF IInv, TypeOK
  <2>5. /\ q \in Row /\ q.status = "processing" /\ q.attempts = old.attempts + 1
        /\ q.leasedUntil = until /\ q.leaseToken = t
    BY <1>1, <2>2, <2>3, <2>4, LeasedRow
  <2>6. row' = [row EXCEPT ![m] = q]
    BY <2>1, <2>2, <2>3
  <2>7. /\ row' \in [Jobs -> Row] /\ row'[m] = q
        /\ \A n \in Jobs \ {m} : row'[n] = row[n]
    BY <2>5, <2>6 DEF IInv, TypeOK
  <2> QED
    BY <2>2, <2>5, <2>7 DEF RowBecomes

<1>4. ~ (Leasable(row[m], clock[w])) => UNCHANGED <<row, leases>>
  BY
  DEF LeaseCandidate
<1>5. /\ row' \in [Jobs -> Row]
      /\ \A n \in Jobs :
           /\ row'[n].status = "processing" <=> row'[n].leaseToken # NoToken
           /\ row'[n].leasedUntil = NoTime <=> row'[n].leaseToken = NoToken
  BY <1>1, <1>2, <1>3, <1>4, TokensAssumption DEF IInv, TypeOK, RowBecomes
<1>14. /\ UNCHANGED <<now, phase, clock, token, batch, job, effects, resets, crashes>>
       /\ UNCHANGED <<picked, asked, overtaken, strayed>>
       /\ \A v \in Workers : todo'[v] \subseteq todo[v]
  BY DEF IInv, TypeOK, LeaseCandidate
<1>15. todo' \in [Workers -> SUBSET Jobs] /\ leases' \in [Jobs -> Nat]
  BY DEF IInv, TypeOK, LeaseCandidate
<1>6. TypeOK'
  BY <1>5, <1>14, <1>15 DEF IInv, TypeOK
<1>7. LeaseEnds'
  BY <1>1, <1>2, <1>3, <1>4
  DEF IInv, TypeOK, RunState, LeaseEnds, TokensDiffer, LeaseCandidate, RowBecomes
<1>8. LeaseKept'
  <2>1. \A v \in Workers, n \in Jobs : HoldsLease(v, n)' => HoldsLease(v, n) /\ phase[v] # "idle"
    BY <1>14 DEF IInv, RunState, HoldsLease, GivenUp
  <2>2. ASSUME NEW v \in Workers, NEW n \in Jobs \ strayed, HoldsLease(v, n), phase[v] # "idle"
        PROVE  row'[n].leaseToken = token[v]
    <3>1. /\ row[n].leaseToken = token[v] /\ token[v] # NoToken
          /\ now < clock[v] + LeaseSeconds /\ clock[w] <= now
          /\ row[n].leasedUntil = clock[v] + LeaseSeconds
          /\ now \in Nat /\ clock[v] \in Nat /\ clock[w] \in Nat
      BY <2>2 DEF IInv, TypeOK, RunState, LeaseKept, LeaseEnds, HoldsLease
    <3>2. ~ (n = m /\ Leasable(row[m], clock[w]))
      BY <1>2, <3>1, ConfigAssumption
    <3> QED
      BY <1>3, <1>4, <3>1, <3>2 DEF RowBecomes
  <2> QED
    BY <1>14, <2>1, <2>2 DEF LeaseKept
<1>9. FailedIsExhausted'
  BY <1>1, <1>2, <1>3, <1>4
  DEF IInv, TypeOK, FailedIsExhausted, LeaseCandidate, RowBecomes
<1>10. PickedAreFailed'
  BY <1>1, <1>2, <1>3, <1>4
  DEF IInv, TypeOK, PickedAreFailed, FailedIsExhausted, LeaseCandidate
<1>11. RowsExist'
  <2>1. \A n \in Jobs : row'[n] = row[n] \/ row'[n].status = "processing"
    BY <1>3, <1>4 DEF RowBecomes
  <2> QED
    BY <1>14, <2>1 DEF IInv, TypeOK, RowsExist
<1>12. AttemptsCounted'
  <2>1. UNCHANGED resets
    BY DEF LeaseCandidate
  <2>2. CASE Leasable(row[m], clock[w])
    <3>1. leases' = [leases EXCEPT ![m] = leases[m] + 1]
      BY <2>2 DEF LeaseCandidate
    <3>2. \A n \in Jobs : MaxAttempts * resets[n] \in Nat
      BY ConfigAssumption DEF IInv, TypeOK
    <3>3. \A n \in Jobs : row[n].attempts \in Nat /\ leases[n] \in Nat
      BY DEF IInv, TypeOK, Row
    <3> QED
      BY <1>2, <1>3, <2>1, <2>2, <3>1, <3>2, <3>3, ConfigAssumption
      DEF IInv, TypeOK, AttemptsCounted, RowBecomes
  <2>3. CASE ~ Leasable(row[m], clock[w])
    BY <1>4, <2>1, <2>3 DEF IInv, AttemptsCounted
  <2> QED
    BY <2>2, <2>3

<1>13. CompletedMeansDone'
  BY <1>1, <1>2, <1>3, <1>4
  DEF IInv, TypeOK, CompletedMeansDone, HandledFirst, RunState, LeaseCandidate,
      RowBecomes
<1>16. /\ RunState'
       /\ TokensDiffer'
       /\ HandledFirst'
  BY DEF IInv, TypeOK, RunState, TokensDiffer, HandledFirst, LeaseCandidate,
         Leasable
<1> QED
  BY <1>5, <1>6, <1>7, <1>8, <1>9, <1>10, <1>11, <1>12, <1>13, <1>16 DEF IInv

LEMMA FetchBatchInv ==
    ASSUME IInv, NEW w \in Workers, FetchBatch(w)
    PROVE  IInv'
<1>1. TypeOK'
  BY DEF IInv, TypeOK, Phases, FetchBatch, LeasedBy, historyVars
<1>2. RunState'
  BY DEF IInv, TypeOK, RunState, FetchBatch, LeasedBy, historyVars
<1>3. LeaseKept'
  BY DEF IInv, TypeOK, RunState, LeaseKept, LeaseEnds, HoldsLease, GivenUp,
         TokensDiffer, FetchBatch, LeasedBy, historyVars
<1>4. /\ TokensDiffer'
      /\ LeaseEnds'
      /\ FailedIsExhausted'
      /\ PickedAreFailed'
      /\ RowsExist'
      /\ AttemptsCounted'
      /\ HandledFirst'
      /\ CompletedMeansDone'
  BY DEF IInv, TypeOK, TokensDiffer, RunState, LeaseEnds, FailedIsExhausted,
         PickedAreFailed, RowsExist, AttemptsCounted, HandledFirst,
         CompletedMeansDone, FetchBatch, LeasedBy, historyVars
<1> QED
  BY <1>1, <1>2, <1>3, <1>4 DEF IInv

LEMMA HandlerReturnsInv ==
    ASSUME IInv, NEW w \in Workers, NEW m \in Jobs, HandlerReturns(w, m)
    PROVE  IInv'
<1>1. TypeOK'
  BY DEF IInv, TypeOK, Phases, HandlerReturns, Oldest
<1>2. RunState'
  BY DEF IInv, TypeOK, RunState, HandlerReturns, Oldest
<1>3. LeaseKept'
  BY DEF IInv, TypeOK, RunState, LeaseKept, LeaseEnds, HoldsLease, GivenUp,
         TokensDiffer, HandlerReturns, Oldest
<1>4. HandledFirst'
  BY DEF IInv, TypeOK, HandledFirst, RunState, HandlerReturns, Oldest
<1>5. CompletedMeansDone'
  BY DEF IInv, TypeOK, CompletedMeansDone, HandledFirst, RunState, HandlerReturns,
         Oldest
<1>6. /\ TokensDiffer'
      /\ LeaseEnds'
      /\ FailedIsExhausted'
      /\ PickedAreFailed'
      /\ RowsExist'
      /\ AttemptsCounted'
  BY DEF IInv, TypeOK, TokensDiffer, RunState, LeaseEnds, FailedIsExhausted,
         PickedAreFailed, RowsExist, AttemptsCounted, HandlerReturns, Oldest
<1> QED
  BY <1>1, <1>2, <1>3, <1>4, <1>5, <1>6 DEF IInv

LEMMA HandlerThrowsInv ==
    ASSUME IInv, NEW w \in Workers, NEW m \in Jobs, HandlerThrows(w, m)
    PROVE  IInv'
<1>1. TypeOK'
  BY DEF IInv, TypeOK, Phases, HandlerThrows, Oldest
<1>2. RunState'
  BY DEF IInv, TypeOK, RunState, HandlerThrows, Oldest
<1>3. LeaseKept'
  BY DEF IInv, TypeOK, RunState, LeaseKept, LeaseEnds, HoldsLease, GivenUp,
         TokensDiffer, HandlerThrows, Oldest
<1>4. HandledFirst'
  BY DEF IInv, TypeOK, HandledFirst, RunState, HandlerThrows, Oldest
<1>5. CompletedMeansDone'
  BY DEF IInv, TypeOK, CompletedMeansDone, HandledFirst, RunState, HandlerThrows,
         Oldest
<1>6. /\ TokensDiffer'
      /\ LeaseEnds'
      /\ FailedIsExhausted'
      /\ PickedAreFailed'
      /\ RowsExist'
      /\ AttemptsCounted'
  BY DEF IInv, TypeOK, TokensDiffer, RunState, LeaseEnds, FailedIsExhausted,
         PickedAreFailed, RowsExist, AttemptsCounted, HandlerThrows, Oldest
<1> QED
  BY <1>1, <1>2, <1>3, <1>4, <1>5, <1>6 DEF IInv

LEMMA CompleteJobInv ==
    ASSUME IInv, NEW w \in Workers, NEW m \in Jobs, CompleteJob(w, m)
    PROVE  IInv'
<1>1. row[m].leaseToken = token[w]
       => RowBecomes(m, "completed", row[m].attempts, NoTime, NoToken)
  BY CompletedRow
  DEF IInv, TypeOK, RunState, RowBecomes, CompleteJob, CompleteUpdate
<1>2. ~ (row[m].leaseToken = token[w]) => UNCHANGED row
  BY
  DEF CompleteJob, CompleteUpdate
<1>3. /\ row' \in [Jobs -> Row]
      /\ \A n \in Jobs :
           /\ row'[n].status = "processing" <=> row'[n].leaseToken # NoToken
           /\ row'[n].leasedUntil = NoTime <=> row'[n].leaseToken = NoToken
  BY <1>1, <1>2 DEF IInv, TypeOK, RowBecomes
<1>4. TypeOK'
  BY <1>3 DEF IInv, TypeOK, Phases, CompleteJob, historyVars
<1>5. RunState'
  BY <1>1, <1>2 DEF IInv, TypeOK, RunState, CompleteJob, historyVars
<1>6. LeaseEnds'
  BY <1>1, <1>2
  DEF IInv, TypeOK, RunState, LeaseEnds, TokensDiffer, CompleteJob, RowBecomes,
      historyVars
<1>7. LeaseKept'
  BY <1>1, <1>2
  DEF IInv, TypeOK, RunState, LeaseKept, LeaseEnds, HoldsLease, GivenUp,
      TokensDiffer, CompleteJob, RowBecomes, historyVars
<1>8. FailedIsExhausted'
  BY <1>1, <1>2
  DEF IInv, TypeOK, FailedIsExhausted, CompleteJob, RowBecomes, historyVars
<1>9. PickedAreFailed'
  BY <1>1, <1>2
  DEF IInv, TypeOK, PickedAreFailed, FailedIsExhausted, CompleteJob, RunState,
      RowBecomes, historyVars
<1>10. RowsExist'
  <2>1. UNCHANGED <<todo, picked>>
    BY DEF CompleteJob
  <2>2. \A n \in Jobs : row'[n].status = "absent" =>
          row[n].status = "absent" /\ row'[n].attempts = row[n].attempts
    BY <1>1, <1>2 DEF RowBecomes
  <2> QED
    BY <2>1, <2>2 DEF IInv, TypeOK, RowsExist
<1>11. AttemptsCounted'
  BY <1>1, <1>2
  DEF IInv, TypeOK, AttemptsCounted, RowsExist, CompleteJob, RowBecomes, historyVars
<1>12. CompletedMeansDone'
  BY <1>1, <1>2
  DEF IInv, TypeOK, CompletedMeansDone, HandledFirst, RunState, CompleteJob,
      RowBecomes, historyVars
<1>13. /\ TokensDiffer'
      /\ HandledFirst'
  BY DEF IInv, TypeOK, TokensDiffer, HandledFirst, RunState, CompleteJob,
         CompleteUpdate, historyVars
<1> QED
  BY <1>3, <1>4, <1>5, <1>6, <1>7, <1>8, <1>9, <1>10, <1>11, <1>12, <1>13 DEF IInv

LEMMA CompleteErrorsInv ==
    ASSUME IInv, NEW w \in Workers, NEW m \in Jobs, CompleteErrors(w, m)
    PROVE  IInv'
<1>1. row' = row \/ CompleteUpdate(w, m)
  BY
  DEF CompleteErrors
<1>2. row' # row
       => /\ RowBecomes(m, "completed", row[m].attempts, NoTime, NoToken)
       /\ row[m].leaseToken = token[w]
  BY <1>1, CompletedRow
  DEF IInv, TypeOK, RunState, RowBecomes, CompleteErrors, CompleteUpdate
<1>3. ~ (row' # row) => UNCHANGED row
  BY
  DEF CompleteErrors, CompleteUpdate
<1>4. /\ row' \in [Jobs -> Row]
      /\ \A n \in Jobs :
           /\ row'[n].status = "processing" <=> row'[n].leaseToken # NoToken
           /\ row'[n].leasedUntil = NoTime <=> row'[n].leaseToken = NoToken
  BY <1>1, <1>2, <1>3 DEF IInv, TypeOK, RowBecomes
<1>5. TypeOK'
  BY <1>4 DEF IInv, TypeOK, Phases, CompleteErrors, historyVars
<1>6. RunState'
  BY <1>1, <1>2, <1>3 DEF IInv, TypeOK, RunState, CompleteErrors, historyVars
<1>7. LeaseEnds'
  <2>1. UNCHANGED <<clock, token>>
    BY DEF CompleteErrors
  <2>2. \A n \in Jobs : row'[n] = row[n] \/ row'[n].leaseToken = NoToken
    BY <1>2, <1>3 DEF RowBecomes
  <2> QED
    BY <2>1, <2>2 DEF IInv, TypeOK, LeaseEnds
<1>8. LeaseKept'
  <2>1. \A v \in Workers, n \in Jobs :
          HoldsLease(v, n)' => HoldsLease(v, n) /\ ~ (v = w /\ n = m)
    BY DEF IInv, TypeOK, HoldsLease, GivenUp, CompleteErrors
  <2>2. ASSUME NEW v \in Workers, NEW n \in Jobs \ strayed, HoldsLease(v, n),
               ~ (v = w /\ n = m)
        PROVE  row'[n] = row[n]
    <3>1. row[n].leaseToken = token[v] /\ token[v] # NoToken
      BY <2>2 DEF IInv, RunState, LeaseKept, HoldsLease
    <3>2. CASE n = m
      BY <1>2, <1>3, <2>2, <3>1, <3>2 DEF IInv, TokensDiffer
    <3>3. CASE n # m
      BY <1>2, <1>3, <3>3 DEF RowBecomes
    <3> QED
      BY <3>2, <3>3
  <2>3. UNCHANGED <<token, strayed>>
    BY DEF CompleteErrors
  <2> QED
    BY <2>1, <2>2, <2>3 DEF IInv, LeaseKept
<1>9. FailedIsExhausted'
  BY <1>1, <1>2, <1>3
  DEF IInv, TypeOK, FailedIsExhausted, CompleteErrors, RowBecomes, historyVars
<1>10. PickedAreFailed'
  <2>1. UNCHANGED <<picked, overtaken>>
    BY DEF CompleteErrors
  <2>2. \A n \in Jobs : row[n].status = "failed" => row'[n] = row[n]
    BY <1>2, <1>3 DEF IInv, TypeOK, RunState, RowBecomes, CompleteErrors
  <2> QED
    BY <2>1, <2>2 DEF IInv, TypeOK, PickedAreFailed
<1>11. RowsExist'
  <2>1. UNCHANGED <<todo, picked>>
    BY DEF CompleteErrors
  <2>2. \A n \in Jobs : row'[n].status = "absent" =>
          row[n].status = "absent" /\ row'[n].attempts = row[n].attempts
    BY <1>1, <1>2, <1>3 DEF RowBecomes
  <2> QED
    BY <2>1, <2>2 DEF IInv, TypeOK, RowsExist
<1>12. AttemptsCounted'
  BY <1>1, <1>2, <1>3
  DEF IInv, TypeOK, AttemptsCounted, RowsExist, CompleteErrors, RowBecomes,
      historyVars
<1>13. HandledFirst'
  BY <1>1, <1>2, <1>3
  DEF IInv, TypeOK, HandledFirst, RunState, CompleteErrors, historyVars
<1>14. CompletedMeansDone'
  BY <1>1, <1>2, <1>3
  DEF IInv, TypeOK, CompletedMeansDone, HandledFirst, RunState, CompleteErrors,
      RowBecomes, historyVars
<1>15. TokensDiffer'
  BY DEF IInv, TypeOK, TokensDiffer, CompleteErrors, CompleteUpdate, historyVars
<1> QED
  BY <1>4, <1>5, <1>6, <1>7, <1>8, <1>9, <1>10, <1>11, <1>12, <1>13, <1>14, <1>15
  DEF IInv

LEMMA FailJobInv ==
    ASSUME IInv, NEW w \in Workers, NEW m \in Jobs, FailJob(w, m)
    PROVE  IInv'
<1>1. row[m] \in Row /\ now \in Nat
  BY
  DEF IInv, TypeOK
<1>2. row[m].leaseToken = token[w]
       => RowBecomes(m, IF row[m].attempts >= MaxAttempts THEN "failed" ELSE "pending",
                     row[m].attempts, NoTime, NoToken)
  BY <1>1, FailedRow DEF IInv, TypeOK, RunState, RowBecomes, FailJob
<1>3. ~ (row[m].leaseToken = token[w]) => UNCHANGED row
  BY
  DEF FailJob
<1>4. /\ row' \in [Jobs -> Row]
      /\ \A n \in Jobs :
           /\ row'[n].status = "processing" <=> row'[n].leaseToken # NoToken
           /\ row'[n].leasedUntil = NoTime <=> row'[n].leaseToken = NoToken
  BY <1>1, <1>2, <1>3 DEF IInv, TypeOK, RowBecomes
<1>5. TypeOK'
  BY <1>4 DEF IInv, TypeOK, Phases, FailJob, historyVars
<1>6. RunState'
  BY <1>1, <1>2, <1>3 DEF IInv, TypeOK, RunState, FailJob, historyVars
<1>7. LeaseEnds'
  BY <1>1, <1>2, <1>3
  DEF IInv, TypeOK, RunState, LeaseEnds, TokensDiffer, FailJob, RowBecomes,
      historyVars
<1>8. LeaseKept'
  BY <1>1, <1>2, <1>3
  DEF IInv, TypeOK, RunState, LeaseKept, LeaseEnds, HoldsLease, GivenUp,
      TokensDiffer, FailJob, historyVars
<1>9. FailedIsExhausted'
  BY <1>1, <1>2, <1>3
  DEF IInv, TypeOK, FailedIsExhausted, FailJob, RowBecomes, historyVars
<1>10. PickedAreFailed'
  BY <1>1, <1>2, <1>3
  DEF IInv, TypeOK, PickedAreFailed, FailedIsExhausted, FailJob, RunState,
      RowBecomes, historyVars
<1>11. RowsExist'
  <2>1. UNCHANGED <<todo, picked>>
    BY DEF FailJob
  <2>2. \A n \in Jobs : row'[n].status = "absent" =>
          row[n].status = "absent" /\ row'[n].attempts = row[n].attempts
    BY <1>1, <1>2, <1>3 DEF RowBecomes
  <2> QED
    BY <2>1, <2>2 DEF IInv, TypeOK, RowsExist
<1>12. AttemptsCounted'
  BY <1>1, <1>2, <1>3
  DEF IInv, TypeOK, AttemptsCounted, RowsExist, FailJob, RowBecomes, historyVars
<1>13. CompletedMeansDone'
  BY <1>1, <1>2, <1>3
  DEF IInv, TypeOK, CompletedMeansDone, HandledFirst, RunState, FailJob, RowBecomes,
      historyVars
<1>14. /\ TokensDiffer'
      /\ HandledFirst'
  BY DEF IInv, TypeOK, TokensDiffer, HandledFirst, RunState, FailJob, historyVars
<1> QED
  BY <1>4, <1>5, <1>6, <1>7, <1>8, <1>9, <1>10, <1>11, <1>12, <1>13, <1>14 DEF IInv

LEMMA EndRunInv ==
    ASSUME IInv, NEW w \in Workers, EndRun(w)
    PROVE  IInv'
<1>1. TypeOK'
  BY DEF IInv, TypeOK, Phases, EndRun, Forget, historyVars
<1>2. RunState'
  BY DEF IInv, TypeOK, RunState, EndRun, Forget, historyVars
<1>3. TokensDiffer'
  BY DEF IInv, TypeOK, TokensDiffer, EndRun, Forget, historyVars
<1>4. LeaseKept'
  BY DEF IInv, TypeOK, RunState, LeaseKept, LeaseEnds, HoldsLease, GivenUp,
         TokensDiffer, EndRun, Forget, historyVars
<1>5. /\ LeaseEnds'
      /\ FailedIsExhausted'
      /\ PickedAreFailed'
      /\ RowsExist'
      /\ AttemptsCounted'
      /\ HandledFirst'
      /\ CompletedMeansDone'
  BY DEF IInv, TypeOK, RunState, LeaseEnds, TokensDiffer, FailedIsExhausted,
         PickedAreFailed, RowsExist, AttemptsCounted, HandledFirst,
         CompletedMeansDone, EndRun, Forget, historyVars
<1> QED
  BY <1>1, <1>2, <1>3, <1>4, <1>5 DEF IInv

LEMMA CrashInv ==
    ASSUME IInv, NEW w \in Workers, Crash(w)
    PROVE  IInv'
<1>1. TypeOK'
  BY DEF IInv, TypeOK, Phases, Crash, Forget, historyVars
<1>2. RunState'
  BY DEF IInv, TypeOK, RunState, Crash, Forget, historyVars
<1>3. TokensDiffer'
  BY DEF IInv, TypeOK, TokensDiffer, Crash, Forget, historyVars
<1>4. LeaseKept'
  BY DEF IInv, TypeOK, RunState, LeaseKept, LeaseEnds, HoldsLease, GivenUp,
         TokensDiffer, Crash, Forget, historyVars
<1>5. /\ LeaseEnds'
      /\ FailedIsExhausted'
      /\ PickedAreFailed'
      /\ RowsExist'
      /\ AttemptsCounted'
      /\ HandledFirst'
      /\ CompletedMeansDone'
  BY DEF IInv, TypeOK, RunState, LeaseEnds, TokensDiffer, FailedIsExhausted,
         PickedAreFailed, RowsExist, AttemptsCounted, HandledFirst,
         CompletedMeansDone, Crash, Forget, historyVars
<1> QED
  BY <1>1, <1>2, <1>3, <1>4, <1>5 DEF IInv

LEMMA ListFailedInv ==
    ASSUME IInv, NEW o \in Operators, ListFailed(o)
    PROVE  IInv'
<1>1. TypeOK'
  BY JobsAssumption DEF IInv, TypeOK, Phases, ListFailed, FailedImports, workerVars, historyVars
<1>2. PickedAreFailed'
  BY JobsAssumption
  DEF IInv, TypeOK, PickedAreFailed, FailedIsExhausted, ListFailed, FailedImports, workerVars,
      historyVars
<1>3. /\ RunState'
      /\ TokensDiffer'
      /\ LeaseEnds'
      /\ LeaseKept'
      /\ FailedIsExhausted'
      /\ RowsExist'
      /\ AttemptsCounted'
      /\ HandledFirst'
      /\ CompletedMeansDone'
  BY DEF IInv, TypeOK, RunState, TokensDiffer, LeaseEnds, LeaseKept, HoldsLease,
         GivenUp, FailedIsExhausted, RowsExist, PickedAreFailed, AttemptsCounted,
         HandledFirst, CompletedMeansDone, ListFailed, FailedImports, workerVars, historyVars
<1> QED
  BY <1>1, <1>2, <1>3 DEF IInv

LEMMA ResetRowInv ==
    ASSUME IInv, NEW o \in Operators, NEW m \in Jobs, ResetRow(o, m)
    PROVE  IInv'
<1>1. /\ row[m].status # "absent"
      /\ row[m].status = "failed" \/ m \in overtaken[o]
      /\ row[m].status = "failed" \/ m \in strayed'
  BY DEF IInv, TypeOK, PickedAreFailed, RowsExist, ResetRow
<1>2. RowBecomes(m, "pending", 0, NoTime, NoToken)
  <2>1. row[m] \in Row /\ asked[o] \in Nat
    BY DEF IInv, TypeOK
  <2>2. row' = [row EXCEPT ![m] = Reopened(row[m], asked[o])]
    BY DEF ResetRow
  <2> QED
    BY <2>1, <2>2, ReopenedRow DEF IInv, TypeOK, RowBecomes
<1>3. /\ row' \in [Jobs -> Row]
      /\ \A n \in Jobs :
           /\ row'[n].status = "processing" <=> row'[n].leaseToken # NoToken
           /\ row'[n].leasedUntil = NoTime <=> row'[n].leaseToken = NoToken
  BY <1>1, <1>2 DEF IInv, TypeOK, RowBecomes
<1>4. TypeOK'
  BY <1>3 DEF IInv, TypeOK, Phases, ResetRow, workerVars
<1>5. LeaseEnds'
  BY <1>1, <1>2
  DEF IInv, TypeOK, RunState, LeaseEnds, TokensDiffer, ResetRow, RowBecomes,
      workerVars
<1>6. LeaseKept'
  BY <1>1, <1>2
  DEF IInv, TypeOK, RunState, LeaseKept, LeaseEnds, HoldsLease, GivenUp,
      TokensDiffer, ResetRow, workerVars
<1>7. FailedIsExhausted'
  BY <1>1, <1>2
  DEF IInv, TypeOK, FailedIsExhausted, ResetRow, RowBecomes, workerVars
<1>8. PickedAreFailed'
  BY <1>1, <1>2
  DEF IInv, TypeOK, PickedAreFailed, FailedIsExhausted, ResetRow, RowBecomes, workerVars
<1>9. RowsExist'
  BY <1>1, <1>2
  DEF IInv, TypeOK, RowsExist, PickedAreFailed, ResetRow, RowBecomes, workerVars
<1>10. AttemptsCounted'
  <2>1. /\ resets' = [resets EXCEPT ![m] = resets[m] + 1]
        /\ UNCHANGED leases
    BY DEF ResetRow
  <2>2. row[m].attempts \in Nat /\ leases[m] \in Nat /\ resets[m] \in Nat
    BY DEF IInv, TypeOK, Row
  <2>3. MaxAttempts * (resets[m] + 1) = MaxAttempts * resets[m] + MaxAttempts
    BY <2>2, ConfigAssumption
  <2>4. leases[m] <= MaxAttempts * resets[m] + MaxAttempts
    <3>1. MaxAttempts * resets[m] \in Nat
      BY <2>2, ConfigAssumption
    <3> QED
      BY <2>2, <3>1, ConfigAssumption DEF IInv, AttemptsCounted
  <2>5. leases'[m] <= MaxAttempts * resets'[m] + row'[m].attempts
    <3>1. resets'[m] = resets[m] + 1 /\ leases'[m] = leases[m] /\ row'[m].attempts = 0
      BY <1>2, <2>1 DEF IInv, TypeOK, RowBecomes
    <3>2. MaxAttempts * (resets[m] + 1) \in Nat
      BY <2>2, ConfigAssumption
    <3> QED
      BY <2>3, <2>4, <3>1, <3>2
  <2>6. \A n \in Jobs \ {m} : row'[n] = row[n] /\ resets'[n] = resets[n]
    BY <1>2, <2>1 DEF IInv, TypeOK, RowBecomes
  <2> QED
    BY <1>2, <2>1, <2>5, <2>6, ConfigAssumption
    DEF IInv, AttemptsCounted, RowBecomes

<1>11. CompletedMeansDone'
  BY <1>1, <1>2
  DEF IInv, TypeOK, CompletedMeansDone, HandledFirst, RunState, ResetRow,
      RowBecomes, workerVars
<1>12. /\ RunState'
      /\ TokensDiffer'
      /\ HandledFirst'
  BY DEF IInv, TypeOK, RunState, TokensDiffer, HandledFirst, ResetRow, workerVars
<1> QED
  BY <1>3, <1>4, <1>5, <1>6, <1>7, <1>8, <1>9, <1>10, <1>11, <1>12 DEF IInv

LEMMA LoseRetryInv ==
    ASSUME IInv, NEW o \in Operators, LoseRetry(o)
    PROVE  IInv'
<1>1. TypeOK'
  BY DEF IInv, TypeOK, Phases, LoseRetry, workerVars, historyVars
<1>2. PickedAreFailed'
  BY DEF IInv, TypeOK, PickedAreFailed, LoseRetry, workerVars, historyVars
<1>3. /\ RunState'
      /\ TokensDiffer'
      /\ LeaseEnds'
      /\ LeaseKept'
      /\ FailedIsExhausted'
      /\ RowsExist'
      /\ AttemptsCounted'
      /\ HandledFirst'
      /\ CompletedMeansDone'
  BY DEF IInv, TypeOK, RunState, TokensDiffer, LeaseEnds, LeaseKept, HoldsLease,
         GivenUp, FailedIsExhausted, RowsExist, PickedAreFailed, AttemptsCounted,
         HandledFirst, CompletedMeansDone, LoseRetry, workerVars, historyVars
<1> QED
  BY <1>1, <1>2, <1>3 DEF IInv

LEMMA TickInv ==
    ASSUME IInv, Tick
    PROVE  IInv'
<1>1. TypeOK'
  BY DEF IInv, TypeOK, Phases, Tick, workerVars, historyVars
<1>2. RunState'
  BY DEF IInv, TypeOK, RunState, Tick, workerVars, historyVars
<1>3. LeaseKept'
  BY ConfigAssumption
  DEF IInv, TypeOK, RunState, LeaseKept, LeaseEnds, HoldsLease, GivenUp,
      TokensDiffer, Tick, workerVars, historyVars
<1>4. /\ TokensDiffer'
      /\ LeaseEnds'
      /\ FailedIsExhausted'
      /\ PickedAreFailed'
      /\ RowsExist'
      /\ AttemptsCounted'
      /\ HandledFirst'
      /\ CompletedMeansDone'
  BY DEF IInv, TypeOK, TokensDiffer, RunState, LeaseEnds, FailedIsExhausted,
         PickedAreFailed, RowsExist, AttemptsCounted, HandledFirst,
         CompletedMeansDone, Tick, workerVars, historyVars
<1> QED
  BY <1>1, <1>2, <1>3, <1>4 DEF IInv

-----------------------------------------------------------------------------

LEMMA StepInv ==
    ASSUME IInv, [Next]_vars
    PROVE  IInv'
<1>1. CASE UNCHANGED vars
  BY <1>1
  DEF vars, workerVars, historyVars, IInv, TypeOK, RunState, TokensDiffer,
      LeaseEnds, LeaseKept, HoldsLease, GivenUp, FailedIsExhausted, PickedAreFailed,
      RowsExist, AttemptsCounted, HandledFirst, CompletedMeansDone
<1>2. CASE \E m \in Jobs : Enqueue(m)
  BY <1>2, EnqueueInv
<1>3. ASSUME NEW w \in Workers, WorkerStep(w)
      PROVE  IInv'
  BY <1>3, BeginRunInv, SelectCandidatesInv, LeaseCandidateInv, FetchBatchInv,
     HandlerReturnsInv, HandlerThrowsInv, CompleteJobInv, CompleteErrorsInv,
     FailJobInv, EndRunInv
  DEF WorkerStep
<1>4. ASSUME NEW w \in Workers, Crash(w)
      PROVE  IInv'
  BY <1>4, CrashInv
<1>5. ASSUME NEW o \in Operators, OperatorStep(o)
      PROVE  IInv'
  BY <1>5, ListFailedInv, LoseRetryInv, ResetRowInv DEF OperatorStep
<1>6. CASE Tick
  BY <1>6, TickInv
<1> QED
  BY <1>1, <1>2, <1>3, <1>4, <1>5, <1>6 DEF Next

\* The inductive invariant holds throughout, with any number of operators and of
\* processors, lost ones included.
THEOREM Invariance ==
    Spec => []IInv
<1>1. Init => IInv
  BY InitInv
<1>2. IInv /\ [Next]_vars => IInv'
  BY StepInv
<1> QED
  BY <1>1, <1>2, PTL DEF Spec

\* Every variable of the queue keeps its type, and a row carries a lease exactly
\* while it is "processing" (leaseJobQueueMessages, completeJobQueueMessage,
\* failJobQueueMessage and the retry of failed rows agree on it).
THEOREM TypeCorrect ==
    Spec => []TypeOK
<1>1. IInv => TypeOK
  BY DEF IInv
<1> QED
  BY <1>1, Invariance, PTL

\* However many processors lease from one table with overlapping candidates, no
\* message is in two batches of processQueuedJobs before its lease runs out, but one
\* that a retry reset from a listing another retry had made stale.
THEOREM LeasesAreExclusive ==
    Spec => []LeaseExclusive
<1>1. IInv => LeaseExclusive
  <2> SUFFICES ASSUME IInv,
                      NEW v \in Workers, NEW w \in Workers, NEW m \in Jobs \ strayed,
                      HoldsLease(v, m), HoldsLease(w, m)
               PROVE  v = w
    BY DEF LeaseExclusive
  <2>1. token[v] = row[m].leaseToken /\ token[w] = row[m].leaseToken
    BY DEF IInv, LeaseKept
  <2>2. token[v] # NoToken
    BY DEF IInv, RunState, HoldsLease
  <2> QED
    BY <2>1, <2>2 DEF IInv, TokensDiffer
<1> QED
  BY <1>1, Invariance, PTL

\* processQueuedJobs completes a message only after its handler ran to its end.
THEOREM CompletedWasHandled ==
    Spec => []CompletedMeansDone
<1>1. IInv => CompletedMeansDone
  BY DEF IInv
<1> QED
  BY <1>1, Invariance, PTL

\* max_attempts bounds the deliveries of a message between two retries by an
\* operator, whatever is lost in between.
THEOREM LeasesAreBounded ==
    Spec => []LeasesBounded
<1>1. IInv => LeasesBounded
  <2> SUFFICES ASSUME IInv, NEW m \in Jobs
               PROVE  leases[m] <= MaxAttempts * (resets[m] + 1)
    BY DEF LeasesBounded
  <2>1. /\ row[m].attempts \in Nat /\ leases[m] \in Nat /\ resets[m] \in Nat
        /\ MaxAttempts \in Nat
    BY ConfigAssumption DEF IInv, TypeOK, Row
  <2>2. MaxAttempts * (resets[m] + 1) = MaxAttempts * resets[m] + MaxAttempts
    BY <2>1
  <2>3. MaxAttempts * resets[m] \in Nat
    BY <2>1
  <2> QED
    BY <2>1, <2>2, <2>3 DEF IInv, AttemptsCounted
<1> QED
  BY <1>1, Invariance, PTL

-----------------------------------------------------------------------------
(* One lease, one run: the leases whose run is still to come are counted.  *)

\* The processors that still have to run the handler of m under the lease they
\* hold, or held when they fetched their batch.
Owing(m) ==
    {w \in Workers :
        \/ phase[w] \in {"select", "lease"} /\ row[m].leaseToken = token[w]
        \/ m \in batch[w] \ job[w]}

\* Of the leases granted for a message, one is left for every processor that has yet
\* to run its handler.
LeaseLeft(m) ==
    /\ IsFiniteSet(Owing(m))
    /\ effects[m] + Cardinality(Owing(m)) <= leases[m]

RunsAreLeased == \A m \in Jobs : LeaseLeft(m)

LEMMA AddsOne ==
    ASSUME NEW S, NEW x, IsFiniteSet(S)
    PROVE  IsFiniteSet(S \cup {x}) /\ Cardinality(S \cup {x}) <= Cardinality(S) + 1
<1>1. IsFiniteSet(S \cup {x})
  BY FS_AddElement
<1>2. \/ Cardinality(S \cup {x}) = Cardinality(S)
      \/ Cardinality(S \cup {x}) = Cardinality(S) + 1
  BY FS_AddElement
<1>3. Cardinality(S) \in Nat
  BY FS_CardinalityType
<1> QED
  BY <1>1, <1>2, <1>3

\* The UPDATE that leases gives at most one processor a run to come, and counts it.
LEMMA LeaseIsAdded ==
    ASSUME IInv, NEW w \in Workers, NEW m \in Jobs, LeaseCandidate(w, m)
    PROVE  \/ Owing(m)' \subseteq Owing(m) /\ leases'[m] = leases[m]
           \/ Owing(m)' \subseteq Owing(m) \cup {w} /\ leases'[m] = leases[m] + 1
<1>1. UNCHANGED <<phase, token, batch, job, effects>>
  BY DEF LeaseCandidate
<1>2. CASE Leasable(row[m], clock[w])
  <2>1. leases'[m] = leases[m] + 1
    BY <1>2 DEF LeaseCandidate, IInv, TypeOK
  <2>2. row'[m].leaseToken = token[w]
    <3>1. token[w] \in Tokens /\ clock[w] + LeaseSeconds \in Nat /\ row[m] \in Row
      BY ConfigAssumption DEF IInv, TypeOK, RunState, LeaseCandidate
    <3>2. row'[m] = Leased(row[m], clock[w] + LeaseSeconds, token[w])
      BY <1>2 DEF LeaseCandidate, IInv, TypeOK
    <3> QED
      BY <3>1, <3>2, LeasedRow
  <2>3. \A v \in Workers : token[v] = token[w] => v = w
    BY DEF IInv, TypeOK, RunState, TokensDiffer, LeaseCandidate
  <2>4. Owing(m)' \subseteq Owing(m) \cup {w}
    BY <1>1, <2>2, <2>3 DEF Owing
  <2> QED
    BY <2>1, <2>4
<1>3. CASE ~ Leasable(row[m], clock[w])
  <2>1. UNCHANGED <<row, leases>>
    BY <1>3 DEF LeaseCandidate
  <2> QED
    BY <1>1, <2>1 DEF Owing
<1> QED
  BY <1>2, <1>3

\* The handler runs for one that owed it.
LEMMA LeaseIsUsed ==
    ASSUME IInv, NEW w \in Workers, NEW m \in Jobs,
           HandlerReturns(w, m) \/ HandlerThrows(w, m)
    PROVE  w \in Owing(m) /\ Owing(m)' = Owing(m) \ {w} /\ leases' = leases
<1>1. /\ phase[w] = "next" /\ m \in Oldest(batch[w]) /\ job' = [job EXCEPT ![w] = {m}]
      /\ UNCHANGED <<row, token, batch, leases>>
  BY DEF HandlerReturns, HandlerThrows
<1>2. PICK p \in {"complete", "fail"} : phase' = [phase EXCEPT ![w] = p]
  BY DEF HandlerReturns, HandlerThrows
<1>3. w \in Owing(m)
  BY <1>1 DEF Owing, Oldest, IInv, TypeOK, RunState
<1>4. Owing(m)' = Owing(m) \ {w}
  BY <1>1, <1>2 DEF Owing, Oldest, IInv, TypeOK, RunState
<1> QED
  BY <1>1, <1>3, <1>4

\* What an action leaves of the runs to come: none more, or one more for a new lease.
LEMMA OwingMoves ==
    ASSUME IInv, NEW m \in Jobs, [Next]_vars
    PROVE  \/ Owing(m)' \subseteq Owing(m) /\ leases'[m] = leases[m]
           \/ \E w \in Workers : /\ Owing(m)' \subseteq Owing(m) \cup {w}
                                 /\ leases'[m] = leases[m] + 1
<1> DEFINE Kept == Owing(m)' \subseteq Owing(m) /\ leases'[m] = leases[m]
<1>1. CASE UNCHANGED vars
  BY <1>1 DEF vars, workerVars, historyVars, Owing
<1>2. \A w \in Workers : phase[w] \in {"select", "lease"} => token[w] # NoToken
  BY DEF IInv, RunState
<1>3. ASSUME NEW n \in Jobs, Enqueue(n)
      PROVE  Kept
  <2>1. \A k \in Jobs : row'[k].leaseToken = row[k].leaseToken \/ row'[k].leaseToken = NoToken
    BY <1>3 DEF Enqueue, IInv, TypeOK, NoRow, Row
  <2> QED
    BY <1>2, <1>3, <2>1 DEF Enqueue, workerVars, historyVars, Owing
<1>4. ASSUME NEW w \in Workers, BeginRun(w)
      PROVE  Kept
  <2>1. row[m].leaseToken # token'[w]
    BY <1>4, FreshTokenIsFresh DEF BeginRun, IInv, TypeOK, LiveTokens
  <2> QED
    BY <1>4, <2>1 DEF BeginRun, IInv, TypeOK, historyVars, Owing
<1>5. ASSUME NEW w \in Workers, SelectCandidates(w)
      PROVE  Kept
  BY <1>5 DEF SelectCandidates, IInv, TypeOK, historyVars, Owing
<1>6. ASSUME NEW w \in Workers, NEW n \in Jobs, LeaseCandidate(w, n), n # m
      PROVE  Kept
  BY <1>6 DEF LeaseCandidate, IInv, TypeOK, Owing
<1>7. ASSUME NEW w \in Workers, FetchBatch(w)
      PROVE  Kept
  <2>1. m \in batch'[w] => row[m].leaseToken = token[w] /\ phase[w] = "lease"
    BY <1>7 DEF FetchBatch, LeasedBy, IInv, TypeOK
  <2> QED
    BY <1>7, <2>1 DEF FetchBatch, IInv, TypeOK, historyVars, Owing
<1>8. ASSUME NEW w \in Workers, NEW n \in Jobs, HandlerReturns(w, n) \/ HandlerThrows(w, n)
      PROVE  Kept
  <2>1. CASE n = m
    BY <1>8, <2>1, LeaseIsUsed
  <2>2. CASE n # m
    <3>1. /\ phase[w] = "next" /\ job' = [job EXCEPT ![w] = {n}]
          /\ UNCHANGED <<row, token, batch, leases>>
      BY <1>8 DEF HandlerReturns, HandlerThrows
    <3>2. PICK p \in {"complete", "fail"} : phase' = [phase EXCEPT ![w] = p]
      BY <1>8 DEF HandlerReturns, HandlerThrows
    <3>3. job[w] = {} /\ batch'[w] = batch[w] /\ phase'[w] \notin {"select", "lease"}
      BY <3>1, <3>2 DEF IInv, TypeOK, RunState
    <3>4. \A v \in Workers \ {w} :
             phase'[v] = phase[v] /\ batch'[v] = batch[v] /\ job'[v] = job[v]
      BY <3>1, <3>2 DEF IInv, TypeOK
    <3> QED
      BY <3>1, <3>3, <3>4 DEF Owing
  <2> QED
    BY <2>1, <2>2
<1>9. ASSUME NEW w \in Workers, NEW n \in Jobs,
             CompleteJob(w, n) \/ FailJob(w, n) \/ CompleteErrors(w, n)
      PROVE  Kept
  <2>1. row'[m].leaseToken = row[m].leaseToken \/ row'[m].leaseToken = NoToken
    <3>1. \A r \in Row : Completed(r).leaseToken = NoToken /\ Failed(r).leaseToken = NoToken
      BY CompletedRow, FailedRow DEF IInv, TypeOK
    <3>2. \/ row' = row
          \/ row' = [row EXCEPT ![n] = Completed(row[n])]
          \/ row' = [row EXCEPT ![n] = Failed(row[n])]
      BY <1>9 DEF CompleteJob, CompleteErrors, FailJob, CompleteUpdate
    <3>3. row \in [Jobs -> Row]
      BY DEF IInv, TypeOK
    <3> QED
      BY <3>1, <3>2, <3>3
  <2>2. /\ phase[w] \in {"complete", "fail"} /\ job[w] = {n}
        /\ UNCHANGED <<token, effects, leases>>
    BY <1>9 DEF CompleteJob, CompleteErrors, FailJob, historyVars, IInv, RunState, TypeOK
  <2>3. \E p \in {"next", "fail"} : phase' = [phase EXCEPT ![w] = p]
    BY <1>9 DEF CompleteJob, CompleteErrors, FailJob
  <2>4. \/ /\ batch' = [batch EXCEPT ![w] = @ \ {n}]
           /\ job' = [job EXCEPT ![w] = {}]
        \/ UNCHANGED <<batch, job>>
    BY <1>9 DEF CompleteJob, CompleteErrors, FailJob
  <2>5. Owing(m)' \subseteq Owing(m)
    BY <1>2, <2>1, <2>2, <2>3, <2>4 DEF IInv, TypeOK, Owing
  <2> QED
    BY <2>2, <2>5
<1>10. ASSUME NEW w \in Workers, EndRun(w) \/ Crash(w)
       PROVE  Kept
  <2>1. Forget(w) /\ UNCHANGED <<row, effects, leases>>
    BY <1>10 DEF EndRun, Crash, historyVars
  <2> QED
    BY <2>1 DEF Forget, IInv, TypeOK, Owing
<1>11. ASSUME NEW o \in Operators, NEW n \in Jobs, ResetRow(o, n)
       PROVE  Kept
  <2>1. row'[m].leaseToken = row[m].leaseToken \/ row'[m].leaseToken = NoToken
    <3>1. asked[o] \in Nat /\ row[n] \in Row
      BY <1>11 DEF IInv, TypeOK
    <3>3. Reopened(row[n], asked[o]).leaseToken = NoToken
      BY <3>1, ReopenedRow
    <3>2. row' = [row EXCEPT ![n] = Reopened(row[n], asked[o])] /\ row \in [Jobs -> Row]
      BY <1>11 DEF ResetRow, IInv, TypeOK
    <3> QED
      BY <3>2, <3>3
  <2> QED
    BY <1>2, <1>11, <2>1 DEF ResetRow, workerVars, Owing
<1>12. ASSUME NEW o \in Operators, ListFailed(o) \/ LoseRetry(o)
       PROVE  Kept
  BY <1>12 DEF ListFailed, LoseRetry, workerVars, historyVars, Owing
<1>13. CASE Tick
  BY <1>13 DEF Tick, workerVars, historyVars, Owing
<1> QED
  BY <1>1, <1>3, <1>4, <1>5, <1>6, <1>7, <1>8, <1>9, <1>10, <1>11, <1>12, <1>13, LeaseIsAdded
  DEF Next, WorkerStep, OperatorStep

\* Only handlers count.
LEMMA EffectsMove ==
    ASSUME IInv, NEW m \in Jobs, [Next]_vars
    PROVE  \/ effects'[m] = effects[m]
           \/ \E w \in Workers : /\ HandlerReturns(w, m) \/ HandlerThrows(w, m)
                                 /\ \E n \in {0, 1} : effects'[m] = effects[m] + n
<1>1. ASSUME NEW w \in Workers, NEW n \in Jobs, HandlerReturns(w, n) \/ HandlerThrows(w, n)
      PROVE  \E x \in {0, 1} : effects' = [effects EXCEPT ![n] = @ + x]
  BY <1>1 DEF HandlerReturns, HandlerThrows
<1>2. \/ effects' = effects
      \/ \E w \in Workers, n \in Jobs : HandlerReturns(w, n) \/ HandlerThrows(w, n)
  BY DEF Next, vars, workerVars, historyVars, WorkerStep, OperatorStep, Enqueue, BeginRun,
         SelectCandidates, LeaseCandidate, FetchBatch, CompleteJob, CompleteErrors,
         FailJob, EndRun, Crash, ListFailed, LoseRetry, ResetRow, Tick
<1> QED
  BY <1>1, <1>2 DEF IInv, TypeOK

\* A set that grows by no more than was leased keeps within the leases.
LEMMA StaysWithin ==
    ASSUME NEW S, NEW T, NEW w, IsFiniteSet(S),
           NEW used \in Nat, NEW least \in Nat, NEW most \in Nat,
           used + Cardinality(S) <= least,
           \/ T \subseteq S /\ most = least
           \/ T \subseteq S \cup {w} /\ most = least + 1
    PROVE  IsFiniteSet(T) /\ used + Cardinality(T) <= most
<1>1. Cardinality(S) \in Nat
  BY FS_CardinalityType
<1>2. CASE T \subseteq S /\ most = least
  <2>1. IsFiniteSet(T) /\ Cardinality(T) <= Cardinality(S)
    BY <1>2, FS_Subset
  <2>2. Cardinality(T) \in Nat
    BY <2>1, FS_CardinalityType
  <2> QED
    BY <1>1, <1>2, <2>1, <2>2
<1>3. CASE T \subseteq S \cup {w} /\ most = least + 1
  <2>1. IsFiniteSet(S \cup {w}) /\ Cardinality(S \cup {w}) <= Cardinality(S) + 1
    BY AddsOne
  <2>2. IsFiniteSet(T) /\ Cardinality(T) <= Cardinality(S \cup {w})
    BY <1>3, <2>1, FS_Subset
  <2>3. Cardinality(T) \in Nat /\ Cardinality(S \cup {w}) \in Nat
    BY <2>1, <2>2, FS_CardinalityType
  <2> QED
    BY <1>1, <1>3, <2>1, <2>2, <2>3
<1> QED
  BY <1>2, <1>3

LEMMA StepLeavesLeases ==
    ASSUME IInv, IInv', RunsAreLeased, [Next]_vars
    PROVE  RunsAreLeased'
<1> SUFFICES ASSUME NEW m \in Jobs
             PROVE  LeaseLeft(m)'
  BY DEF RunsAreLeased
<1>1. IsFiniteSet(Owing(m)) /\ effects[m] + Cardinality(Owing(m)) <= leases[m]
  BY DEF RunsAreLeased, LeaseLeft
<1>2. effects[m] \in Nat /\ leases[m] \in Nat /\ leases'[m] \in Nat
  BY DEF IInv, TypeOK
<1>3. CASE effects'[m] = effects[m]
  <2>1. PICK w : \/ Owing(m)' \subseteq Owing(m) /\ leases'[m] = leases[m]
                 \/ Owing(m)' \subseteq Owing(m) \cup {w} /\ leases'[m] = leases[m] + 1
    BY OwingMoves
  <2>2. IsFiniteSet(Owing(m)') /\ effects[m] + Cardinality(Owing(m)') <= leases'[m]
    BY <1>1, <1>2, <2>1, StaysWithin
  <2> QED
    BY <1>3, <2>2 DEF LeaseLeft
<1>4. ASSUME NEW w \in Workers, HandlerReturns(w, m) \/ HandlerThrows(w, m),
             NEW n \in {0, 1}, effects'[m] = effects[m] + n
      PROVE  LeaseLeft(m)'
  <2>1. w \in Owing(m) /\ Owing(m)' = Owing(m) \ {w} /\ leases' = leases
    BY <1>4, LeaseIsUsed
  <2>2. /\ IsFiniteSet(Owing(m)')
        /\ Cardinality(Owing(m)') = Cardinality(Owing(m)) - 1
    BY <1>1, <2>1, FS_RemoveElement
  <2>3. Cardinality(Owing(m)) \in Nat
    BY <1>1, FS_CardinalityType
  <2> QED
    BY <1>1, <1>2, <1>4, <2>1, <2>2, <2>3 DEF LeaseLeft
<1> QED
  BY <1>3, <1>4, EffectsMove

\* A message's handler runs at most once for each lease that was granted for it
\* (processQueuedJobs), and what its row, its leases and its runs say fits together:
\* also when a lease ran out under the handler and another processor has the next.
THEOREM HandledForLeases ==
    Spec => []HandledPerLease
<1>1. Init => RunsAreLeased
  <2>1. Init => \A m \in Jobs : Owing(m) = {}
    BY DEF Init, Owing
  <2>2. IsFiniteSet({}) /\ Cardinality({}) = 0
    BY FS_EmptySet
  <2>3. Init => \A m \in Jobs : effects[m] = 0 /\ leases[m] = 0
    BY DEF Init
  <2>4. ASSUME Init, NEW m \in Jobs
        PROVE  LeaseLeft(m)
    <3>1. Owing(m) = {} /\ effects[m] = 0 /\ leases[m] = 0
      BY <2>1, <2>3, <2>4
    <3> QED
      BY <2>2, <3>1 DEF LeaseLeft
  <2> QED
    BY <2>4 DEF RunsAreLeased
<1>2. IInv /\ IInv' /\ RunsAreLeased /\ [Next]_vars => RunsAreLeased'
  BY StepLeavesLeases
<1>3. IInv /\ RunsAreLeased => OneRunPerLease
  <2> SUFFICES ASSUME IInv, NEW m \in Jobs, LeaseLeft(m)
               PROVE  effects[m] <= leases[m]
    BY DEF RunsAreLeased, OneRunPerLease
  <2>1. Cardinality(Owing(m)) \in Nat /\ effects[m] \in Nat /\ leases[m] \in Nat
    BY FS_CardinalityType DEF LeaseLeft, IInv, TypeOK
  <2> QED
    BY <2>1 DEF LeaseLeft
<1>4. IInv => TypeOK /\ CompletedMeansDone
  BY DEF IInv
<1>5. OneRunPerLease /\ TypeOK /\ CompletedMeansDone /\ LeasesBounded => HandledPerLease
  BY DEF HandledPerLease
<1> QED
  BY <1>1, <1>2, <1>3, <1>4, <1>5, Invariance, LeasesAreBounded, PTL DEF Spec

-----------------------------------------------------------------------------
\* A retry resets a row as failed as its listing showed it, unless another retry has
\* reset it since: no lease UPDATE, stale as its candidates may be, revives a row that
\* is failed.
THEOREM ResetsOnlyFailed ==
    Spec => OnlyFailedRowsReset
<1> DEFINE Kept == \A o \in Operators : \A m \in picked[o] \ picked'[o] :
            resets'[m] > resets[m] /\ m \notin overtaken[o] => row[m].status = "failed"
<1>1. ASSUME IInv
      PROVE  Kept
  BY <1>1 DEF IInv, PickedAreFailed
<1>2. IInv /\ [Next]_vars => [Kept]_vars
  BY <1>1
<1> QED
  BY <1>2, Invariance, PTL DEF Spec, OnlyFailedRowsReset

-----------------------------------------------------------------------------
(* The imports of learner records: a queue whose handler inserts entries,  *)
(* beside administrators who create and patch entries.                     *)

\* An upload is of one of the files until it ends.
UploadsFit ==
    /\ upload \in [Batches -> [step: {"none", "previewed", "queueing", "answered", "lost"},
                               file: Files \cup {<<>>}, trust: TrustLevels]]
    /\ \A b \in Batches : upload[b].step # "none" => upload[b].file \in Files

\* Rows are queued by an upload that found them valid.
Uploaded(m) ==
    upload[m[1]].step \in {"queueing", "answered", "lost"} /\ m[2] \in ValidRows(m[1])

RowsUploaded == \A m \in Jobs : row[m].status # "absent" => Uploaded(m)

BatchesExist == \A w \in Workers : \A m \in batch[w] : row[m].status # "absent"

\* An entry that was imported is of a row that was queued, and its context is the row's.
OriginsFit ==
    /\ made \in [Workers -> Stored \cup {Nothing}]
    /\ origin \in [Entries -> Jobs \cup {Nothing}]
    /\ DOMAIN context = Entries
    /\ \A e \in Entries : origin[e] # Nothing => e \in Stored /\ row[origin[e]].status # "absent"
    /\ \A e \in Entries : context[e] # Nothing =>
           origin[e] # Nothing /\ context[e] = SmartContext(Candidate(origin[e]))

\* A request that writes has read an entry and checked what it makes of it.
EditFits(d) ==
    /\ d.step # "idle" => d.entry \in Entries /\ d.patch \in Patches
    /\ d.step = "write" => d.read \in LearnerEntry /\ MakesSense(Merged(d.read, d.patch))

RecordsFit ==
    /\ entry \in [Entries -> LearnerEntry \cup {NoRecord}]
    /\ edit \in [Editors -> [step: {"idle", "read", "write"}, entry: Entries \cup {NoEntry},
                             patch: Patches \cup {NoPatch}, read: LearnerEntry \cup {NoRecord}]]
    /\ \A c \in Editors : EditFits(edit[c])
    /\ RecordsMakeSense

\* What a handler that returned has left.
Imported(m) == \E e \in EntriesOf(m) : context[e] = SmartContext(Candidate(m))

ImportsDone ==
    /\ \A m \in Jobs : row[m].status = "completed" => Imported(m)
    /\ \A w \in Workers : \A m \in job[w] : phase[w] = "complete" => Imported(m)

\* The processors whose handler has yet to insert, of those that still have to run it.
Unmade(m) == {w \in Owing(m) : HandledRow(w) # m}

\* Of the leases granted for a row, one is left for each of them.
InsertLeft(m) ==
    /\ IsFiniteSet(Unmade(m))
    /\ Cardinality(EntriesOf(m)) + Cardinality(Unmade(m)) <= leases[m]

InsertsAreLeased == \A m \in Jobs : InsertLeft(m)

ImportInv ==
    /\ UploadsFit /\ RowsUploaded /\ BatchesExist /\ OriginsFit
    /\ RecordsFit /\ ImportsDone /\ InsertsAreLeased

-----------------------------------------------------------------------------
(* What a step of the queue does to a row and to a processor.              *)

\* The steps of the queue but an INSERT.
Works ==
    \/ QueueStep
    \/ \E w \in Workers : Crash(w) \/ \E m \in Jobs : HandlerReturns(w, m) \/ HandlerThrows(w, m)

RowChange(m) ==
    \/ row'[m] = row[m]
    \/ row[m].status # "absent" /\ row'[m].status \in {"processing", "pending", "failed"}
    \/ /\ row[m].status # "absent" /\ row'[m].status = "completed"
       /\ \E w \in Workers : phase[w] = "complete" /\ m \in job[w]

LEMMA RowChanges ==
    ASSUME IInv, NEW m \in Jobs, [Works]_vars
    PROVE  RowChange(m)
<1>1. row \in [Jobs -> Row]
  BY DEF IInv, TypeOK
<1>2. CASE row' = row
  BY <1>2 DEF RowChange
<1>4. ASSUME NEW w \in Workers, NEW n \in Jobs, LeaseCandidate(w, n)
      PROVE  RowChange(m)
  <2>1. token[w] \in Tokens /\ clock[w] + LeaseSeconds \in Nat /\ row[n] \in Row
    BY <1>4, ConfigAssumption DEF IInv, TypeOK, RunState, LeaseCandidate
  <2>2. row[n].status # "absent"
    BY <1>4 DEF LeaseCandidate, Oldest, IInv, RowsExist
  <2>3. Leased(row[n], clock[w] + LeaseSeconds, token[w]).status = "processing"
    BY <2>1, LeasedRow
  <2>4. \/ row' = row
        \/ row' = [row EXCEPT ![n] = Leased(row[n], clock[w] + LeaseSeconds, token[w])]
    BY <1>4 DEF LeaseCandidate
  <2> QED
    BY <1>1, <2>2, <2>3, <2>4 DEF RowChange
<1>5. ASSUME NEW w \in Workers, NEW n \in Jobs, row[n].leaseToken = token[w], phase[w] # "idle"
      PROVE  row[n].status # "absent"
  BY <1>5 DEF IInv, TypeOK, RunState
<1>6. ASSUME NEW w \in Workers, NEW n \in Jobs, CompleteJob(w, n) \/ CompleteErrors(w, n)
      PROVE  RowChange(m)
  <2>1. phase[w] = "complete" /\ n \in job[w]
    BY <1>6 DEF CompleteJob, CompleteErrors
  <2>2. \/ row' = row
        \/ row[n].leaseToken = token[w] /\ row' = [row EXCEPT ![n] = Completed(row[n])]
    BY <1>6 DEF CompleteJob, CompleteErrors, CompleteUpdate
  <2>3. Completed(row[n]).status = "completed"
    BY <1>1, CompletedRow
  <2> QED
    BY <1>1, <1>5, <2>1, <2>2, <2>3 DEF RowChange
<1>7. ASSUME NEW w \in Workers, NEW n \in Jobs, FailJob(w, n)
      PROVE  RowChange(m)
  <2>1. phase[w] = "fail"
    BY <1>7 DEF FailJob
  <2>2. \/ row' = row
        \/ row[n].leaseToken = token[w] /\ row' = [row EXCEPT ![n] = Failed(row[n])]
    BY <1>7 DEF FailJob
  <2>3. Failed(row[n]).status \in {"failed", "pending"}
    BY <1>1, FailedRow DEF IInv, TypeOK
  <2> QED
    BY <1>1, <1>5, <2>1, <2>2, <2>3 DEF RowChange
<1>8. ASSUME NEW o \in Operators, NEW n \in Jobs, ResetRow(o, n)
      PROVE  RowChange(m)
  <2>1. row[n].status # "absent"
    BY <1>8 DEF ResetRow, IInv, RowsExist
  <2>2. asked[o] \in Nat /\ row[n] \in Row
    BY DEF IInv, TypeOK
  <2>3. Reopened(row[n], asked[o]).status = "pending"
    BY <2>2, ReopenedRow
  <2>4. row' = [row EXCEPT ![n] = Reopened(row[n], asked[o])]
    BY <1>8 DEF ResetRow
  <2> QED
    BY <1>1, <2>1, <2>3, <2>4 DEF RowChange
<1>9. \/ row' = row
      \/ \E w \in Workers, n \in Jobs : \/ LeaseCandidate(w, n) \/ CompleteJob(w, n)
                                        \/ CompleteErrors(w, n) \/ FailJob(w, n)
      \/ \E o \in Operators, n \in Jobs : ResetRow(o, n)
  BY DEF Works, QueueStep, vars, OperatorStep, BeginRun, SelectCandidates, FetchBatch,
         HandlerReturns, HandlerThrows, EndRun, Crash, ListFailed, LoseRetry, Tick
<1> QED
  BY <1>2, <1>4, <1>6, <1>7, <1>8, <1>9

\* A processor fetches rows that are leased, and only a handler that returns leads it to
\* complete.
LEMMA RunChanges ==
    ASSUME IInv, NEW m \in Jobs, NEW w \in Workers, [Next]_vars
    PROVE  /\ m \in batch'[w] => m \in batch[w] \/ row[m].status # "absent"
           /\ m \in job'[w] /\ phase'[w] = "complete" =>
                  (m \in job[w] /\ phase[w] = "complete") \/ HandlerReturns(w, m)
<1> DEFINE Fetched == m \in batch'[w] => m \in batch[w] \/ row[m].status # "absent"
           Returned == m \in job'[w] /\ phase'[w] = "complete" =>
                           (m \in job[w] /\ phase[w] = "complete") \/ HandlerReturns(w, m)
<1>1. CASE UNCHANGED <<batch, job, phase>>
  BY <1>1
<1>2. ASSUME NEW v \in Workers, BeginRun(v) \/ SelectCandidates(v)
      PROVE  Fetched /\ Returned
  BY <1>2 DEF BeginRun, SelectCandidates, IInv, TypeOK
<1>3. ASSUME NEW v \in Workers, FetchBatch(v)
      PROVE  Fetched /\ Returned
  <2>1. row[m].leaseToken = token[v] => row[m].status # "absent"
    BY <1>3 DEF FetchBatch, IInv, TypeOK, RunState
  <2>2. m \in LeasedBy(token[v]) => row[m].status # "absent"
    BY <2>1 DEF LeasedBy
  <2> QED
    BY <1>3, <2>2 DEF FetchBatch, IInv, TypeOK
<1>4. ASSUME NEW v \in Workers, NEW n \in Jobs, HandlerReturns(v, n)
      PROVE  Fetched /\ Returned
  <2>1. Fetched
    BY <1>4 DEF HandlerReturns
  <2>2. CASE v = w
    <3>1. m \in job'[w] => m = n
      BY <1>4, <2>2 DEF HandlerReturns, IInv, TypeOK
    <3> QED
      BY <1>4, <2>1, <2>2, <3>1
  <2>3. CASE v # w
    BY <1>4, <2>1, <2>3 DEF HandlerReturns, IInv, TypeOK
  <2> QED
    BY <2>2, <2>3
<1>5. ASSUME NEW v \in Workers, NEW n \in Jobs, HandlerThrows(v, n)
      PROVE  Fetched /\ Returned
  <2>1. batch' = batch /\ job' = [job EXCEPT ![v] = {n}] /\ phase' = [phase EXCEPT ![v] = "fail"]
    BY <1>5 DEF HandlerThrows
  <2> QED
    BY <2>1 DEF IInv, TypeOK
<1>6. ASSUME NEW v \in Workers, NEW n \in Jobs,
             CompleteJob(v, n) \/ CompleteErrors(v, n) \/ FailJob(v, n)
      PROVE  Fetched /\ Returned
  <2>1. \E p \in {"next", "fail"} : phase' = [phase EXCEPT ![v] = p]
    BY <1>6 DEF CompleteJob, CompleteErrors, FailJob
  <2>2. \/ /\ batch' = [batch EXCEPT ![v] = @ \ {n}]
           /\ job' = [job EXCEPT ![v] = {}]
        \/ UNCHANGED <<batch, job>>
    BY <1>6 DEF CompleteJob, CompleteErrors, FailJob
  <2> QED
    BY <2>1, <2>2 DEF IInv, TypeOK
<1>7. ASSUME NEW v \in Workers, EndRun(v) \/ Crash(v)
      PROVE  Fetched /\ Returned
  BY <1>7 DEF EndRun, Crash, Forget, IInv, TypeOK
<1>8. \/ UNCHANGED <<batch, job, phase>>
      \/ \E v \in Workers : \/ BeginRun(v) \/ SelectCandidates(v) \/ FetchBatch(v)
                            \/ EndRun(v) \/ Crash(v)
      \/ \E v \in Workers, n \in Jobs : \/ HandlerReturns(v, n) \/ HandlerThrows(v, n)
                                        \/ CompleteJob(v, n) \/ CompleteErrors(v, n)
                                        \/ FailJob(v, n)
  BY DEF Next, vars, workerVars, WorkerStep, OperatorStep, Enqueue, LeaseCandidate, ListFailed,
         LoseRetry, ResetRow, Tick
<1> QED
  BY <1>1, <1>2, <1>3, <1>4, <1>5, <1>6, <1>7, <1>8

-----------------------------------------------------------------------------
(* What a step is to an import: one of these.                              *)

UploadBegins ==
    /\ \E b \in Batches, f \in Files, t \in TrustLevels, s \in {"previewed", "queueing"} :
           /\ upload[b].step = "none"
           /\ upload' = [upload EXCEPT ![b] = [step |-> s, file |-> f, trust |-> t]]
    /\ UNCHANGED <<vars, recordVars, made, origin, context>>

UploadEnds ==
    /\ \E b \in Batches, s \in {"answered", "lost"} :
           /\ upload[b].step = "queueing"
           /\ upload' = [upload EXCEPT ![b].step = s]
    /\ UNCHANGED <<vars, recordVars, made, origin, context>>

Inserts(w, m) ==
    /\ phase[w] = "next" /\ m \in Oldest(batch[w]) /\ made[w] = Nothing
    /\ Entries # Stored /\ NewEntry(m)
    /\ \/ UNCHANGED vars /\ made' = [made EXCEPT ![w] = FreshEntry]
       \/ HandlerThrows(w, m) /\ made' = [made EXCEPT ![w] = Nothing]
    /\ UNCHANGED <<edit, edits, upload, context>>

Finishes(w, m) ==
    /\ HandledRow(w) = m
    /\ \/ HandlerReturns(w, m) /\ WriteContext(w, m)
       \/ HandlerThrows(w, m) /\ (WriteContext(w, m) \/ UNCHANGED context)
    /\ made' = [made EXCEPT ![w] = Nothing]
    /\ UNCHANGED <<recordVars, upload, origin>>

GivesUp(w) ==
    /\ \/ Crash(w)
       \/ \E m \in Jobs : HandlerThrows(w, m) /\ made[w] = Nothing
    /\ made' = [made EXCEPT ![w] = Nothing]
    /\ UNCHANGED <<recordVars, upload, origin, context>>

LEMMA ImportMoves ==
    ASSUME [AllNext]_allVars
    PROVE  \/ \E b \in Batches : QueueRow(b)
           \/ [QueueStep]_vars /\ UNCHANGED <<recordVars, importVars>>
           \/ RecordNext /\ UNCHANGED <<vars, importVars>>
           \/ UploadBegins \/ UploadEnds
           \/ \E w \in Workers : GivesUp(w) \/ \E m \in Jobs : Inserts(w, m) \/ Finishes(w, m)
<1>1. CASE UNCHANGED allVars
  BY <1>1 DEF allVars
<1>2. ASSUME NEW b \in Batches, NEW f \in Files, NEW t \in TrustLevels, NEW d \in BOOLEAN,
             Upload(b, f, t, d)
      PROVE  UploadBegins
  <2>1. PICK s \in {"previewed", "queueing"} : s = IF d THEN "previewed" ELSE "queueing"
    OBVIOUS
  <2> QED
    BY <1>2, <2>1 DEF Upload, UploadBegins
<1>3. ASSUME NEW b \in Batches, AnswerUpload(b) \/ LoseUpload(b)
      PROVE  UploadEnds
  BY <1>3 DEF AnswerUpload, LoseUpload, UploadEnds
<1>4. ASSUME NEW w \in Workers, CrashImport(w)
      PROVE  GivesUp(w)
  BY <1>4 DEF CrashImport, GivesUp
<1>5. ASSUME NEW w \in Workers, NEW m \in Jobs, InsertImported(w, m)
      PROVE  Inserts(w, m)
  BY <1>5 DEF InsertImported, Inserts
<1>6. ASSUME NEW w \in Workers, NEW m \in Jobs, ImportReturns(w, m)
      PROVE  Finishes(w, m)
  BY <1>6 DEF ImportReturns, Finishes
<1>7. ASSUME NEW w \in Workers, NEW m \in Jobs, ImportThrows(w, m)
      PROVE  GivesUp(w) \/ Inserts(w, m) \/ Finishes(w, m)
  <2>1. HandlerThrows(w, m) /\ phase[w] = "next" /\ m \in Oldest(batch[w])
    BY <1>7 DEF ImportThrows, ImportFails, HandlerThrows
  <2>2. made' = [made EXCEPT ![w] = Nothing] /\ UNCHANGED <<edit, edits, upload>>
    BY <1>7 DEF ImportThrows
  <2>3. CASE made[w] = Nothing /\ UNCHANGED <<entry, origin, context>>
    BY <2>1, <2>2, <2>3 DEF GivesUp, recordVars
  <2>4. CASE made[w] = Nothing /\ Entries # Stored /\ NewEntry(m) /\ UNCHANGED context
    BY <2>1, <2>2, <2>4 DEF Inserts
  <2>5. CASE HandledRow(w) = m /\ (WriteContext(w, m) \/ UNCHANGED context) /\ UNCHANGED <<entry, origin>>
    BY <2>1, <2>2, <2>5 DEF Finishes, recordVars
  <2> QED
    BY <1>7, <2>3, <2>4, <2>5 DEF ImportThrows
<1>8. CASE QueueStep /\ UNCHANGED <<recordVars, importVars>>
  BY <1>8
<1> QED
  BY <1>1, <1>2, <1>3, <1>4, <1>5, <1>6, <1>7, <1>8 DEF AllNext, ImportNext

\* All but an INSERT of a row is work of the queue, or nothing to it.
LEMMA MovesWork ==
    ASSUME [AllNext]_allVars
    PROVE  [Works]_vars \/ \E b \in Batches : QueueRow(b)
<1>1. ASSUME NEW w \in Workers, NEW m \in Jobs, Inserts(w, m) \/ Finishes(w, m)
      PROVE  [Works]_vars
  BY <1>1 DEF Inserts, Finishes, Works
<1>2. ASSUME NEW w \in Workers, GivesUp(w)
      PROVE  [Works]_vars
  BY <1>2 DEF GivesUp, Works
<1> QED
  BY <1>1, <1>2, ImportMoves DEF UploadBegins, UploadEnds, Works

\* The rows of a file are messages.
LEMMA FileRows ==
    ASSUME UploadsFit, NEW b \in Batches, NEW n \in ValidRows(b)
    PROVE  <<b, n>> \in Jobs /\ upload[b].file \in Files /\ n \in DOMAIN upload[b].file
<1>1. n \in DOMAIN upload[b].file
  BY DEF ValidRows
<1>2. upload[b].file # <<>>
  BY <1>1
<1>3. upload[b].file \in Files
  BY <1>2 DEF UploadsFit
<1> QED
  BY <1>1, <1>3, ImportAssumption

\* To the queue, an import is a client and a handler.
LEMMA ImportIsQueue ==
    ASSUME UploadsFit, [AllNext]_allVars
    PROVE  [Next]_vars
<1>1. ASSUME NEW b \in Batches, QueueRow(b)
      PROVE  \E m \in Jobs : Enqueue(m)
  BY <1>1, FileRows DEF QueueRow, Unqueued
<1>2. [Works]_vars => [Next]_vars
  BY DEF Works, QueueStep, Next, WorkerStep
<1> QED
  BY <1>1, <1>2, MovesWork DEF Next

LEMMA UploadsFitStays ==
    ASSUME UploadsFit, [AllNext]_allVars
    PROVE  UploadsFit'
<1>1. CASE UNCHANGED upload
  BY <1>1 DEF UploadsFit
<1>2. CASE UploadBegins
  BY <1>2 DEF UploadBegins, UploadsFit
<1>3. CASE UploadEnds
  BY <1>3 DEF UploadEnds, UploadsFit
<1>4. UNCHANGED upload \/ UploadBegins \/ UploadEnds
  BY ImportMoves DEF QueueRow, importVars, GivesUp, Inserts, Finishes
<1> QED
  BY <1>1, <1>2, <1>3, <1>4

\* A row stays, and so does what it is of.
LEMMA RowsStay ==
    ASSUME IInv, ImportInv, [AllNext]_allVars, NEW m \in Jobs, row[m].status # "absent"
    PROVE  row'[m].status # "absent"
<1>1. ASSUME NEW b \in Batches, QueueRow(b)
      PROVE  row'[m].status # "absent"
  <2>1. PICK n \in Unqueued(b) : Enqueue(<<b, n>>)
    BY <1>1 DEF QueueRow
  <2>2. m # <<b, n>>
    BY DEF Unqueued
  <2> QED
    BY <2>1, <2>2 DEF Enqueue, IInv, TypeOK
<1>2. CASE [Works]_vars
  BY <1>2, RowChanges DEF RowChange
<1> QED
  BY <1>1, <1>2, MovesWork

LEMMA UploadStays ==
    ASSUME UploadsFit, [AllNext]_allVars, NEW m \in Jobs, Uploaded(m)
    PROVE  /\ Uploaded(m)' /\ Candidate(m)' = Candidate(m)
           /\ SmartContext(Candidate(m))' = SmartContext(Candidate(m))
<1>1. m[1] \in Batches /\ upload \in [Batches -> [step: {"none", "previewed", "queueing", "answered", "lost"},
                                                  file: Files \cup {<<>>}, trust: TrustLevels]]
  BY ImportAssumption DEF UploadsFit
<1>2. upload[m[1]].step \in {"queueing", "answered", "lost"}
  BY DEF Uploaded
<1>3. UNCHANGED upload \/ UploadBegins \/ UploadEnds
  BY ImportMoves DEF QueueRow, importVars, GivesUp, Inserts, Finishes
<1>4. /\ upload'[m[1]].step \in {"queueing", "answered", "lost"}
      /\ upload'[m[1]].file = upload[m[1]].file /\ upload'[m[1]].trust = upload[m[1]].trust
  BY <1>1, <1>2, <1>3 DEF UploadBegins, UploadEnds
<1>5. ValidRows(m[1])' = ValidRows(m[1])
  BY <1>4 DEF ValidRows
<1>6. Candidate(m)' = Candidate(m)
  BY <1>4 DEF Candidate
<1> QED
  BY <1>4, <1>5, <1>6 DEF Uploaded

LEMMA RowsUploadedStays ==
    ASSUME IInv, ImportInv, [AllNext]_allVars
    PROVE  RowsUploaded'
<1> SUFFICES ASSUME NEW m \in Jobs, row'[m].status # "absent"
             PROVE  Uploaded(m)'
  BY DEF RowsUploaded
<1>1. row[m].status # "absent" => Uploaded(m)'
  BY UploadStays DEF ImportInv, RowsUploaded
<1>2. ASSUME NEW b \in Batches, QueueRow(b)
      PROVE  Uploaded(m)'
  <2>1. PICK n \in Unqueued(b) : Enqueue(<<b, n>>)
    BY <1>2 DEF QueueRow
  <2>2. CASE m = <<b, n>>
    <3>1. Uploaded(m)
      BY <1>2, <2>2 DEF QueueRow, Unqueued, Uploaded
    <3> QED
      BY <3>1, UploadStays DEF ImportInv
  <2>3. CASE m # <<b, n>>
    BY <1>1, <2>1, <2>3 DEF Enqueue, IInv, TypeOK
  <2> QED
    BY <2>2, <2>3
<1>3. CASE [Works]_vars
  BY <1>1, <1>3, RowChanges DEF RowChange
<1> QED
  BY <1>2, <1>3, MovesWork

LEMMA BatchesExistStays ==
    ASSUME IInv, IInv', ImportInv, [AllNext]_allVars
    PROVE  BatchesExist'
<1> SUFFICES ASSUME NEW w \in Workers, NEW m \in batch'[w]
             PROVE  row'[m].status # "absent"
  BY DEF BatchesExist
<1>1. m \in Jobs
  BY DEF IInv, TypeOK
<1>2. [Next]_vars
  BY ImportIsQueue DEF ImportInv
<1>3. m \in batch[w] \/ row[m].status # "absent"
  BY <1>1, <1>2, RunChanges
<1>4. row[m].status # "absent"
  BY <1>3 DEF ImportInv, BatchesExist
<1> QED
  BY <1>1, <1>4, RowsStay

-----------------------------------------------------------------------------
(* Entries.                                                                *)

\* A patch makes an entry of an entry, and leaves what it does not name.
LEMMA MergedFits ==
    ASSUME NEW r \in LearnerEntry, NEW p \in Patches
    PROVE  /\ Merged(r, p) \in LearnerEntry
           /\ "status" \notin DOMAIN p => Merged(r, p).status = r.status
<1>1. PICK s \in LearnerEntry : \A k \in DOMAIN p : k \in DOMAIN s /\ p[k] = s[k]
  BY RequestsAssumption
<1> DEFINE Columns == {"trustLevel", "recordType", "status", "sourceSystem", "revokedAt"}
           q == Merged(r, p)
<1>2. DOMAIN r = Columns /\ DOMAIN s = Columns
  BY DEF LearnerEntry
<1>3. q = [k \in Columns |-> IF k \in DOMAIN p THEN p[k] ELSE r[k]]
  BY <1>1, <1>2 DEF Merged
<1>4. \A k \in Columns : q[k] = r[k] \/ q[k] = s[k]
  BY <1>1, <1>3
<1>5. q = [trustLevel |-> q.trustLevel, recordType |-> q.recordType, status |-> q.status,
           sourceSystem |-> q.sourceSystem, revokedAt |-> q.revokedAt]
  BY <1>3
<1>6. /\ q.trustLevel \in TrustLevels /\ q.recordType \in RecordTypes
      /\ q.status \in RecordStatuses /\ q.sourceSystem \in SourceSystems
      /\ q.revokedAt \in BOOLEAN
  BY <1>4 DEF LearnerEntry
<1>7. q \in LearnerEntry
  BY <1>5, <1>6 DEF LearnerEntry
<1>8. "status" \notin DOMAIN p => q.status = r.status
  BY <1>3
<1> QED
  BY <1>7, <1>8

LEMMA EntriesAreThere ==
    ASSUME NEW r \in LearnerEntry
    PROVE  r # NoRecord
  BY DEF LearnerEntry, NoRecord, RecordStatuses

\* What the upload found valid the database takes.
LEMMA QueuedMakesSense ==
    ASSUME UploadsFit, NEW m \in Jobs, Uploaded(m)
    PROVE  ImportedEntry(m) \in LearnerEntry /\ MakesSense(ImportedEntry(m))
<1> DEFINE b == m[1]
           r == Candidate(m)
<1>1. b \in Batches /\ m = <<b, m[2]>>
  BY ImportAssumption
<1>2. upload[b].file \in Files /\ m[2] \in DOMAIN upload[b].file
  BY <1>1, FileRows DEF Uploaded
<1>3. ValidRow(r, upload[b].trust)
  BY DEF Uploaded, ValidRows, Candidate
<1>4. r.trust \in TrustLevels \cup {Nothing} /\ r.recordType \in RecordTypes
  BY <1>2, ImportAssumption DEF Candidate
<1>5. upload[b].trust \in TrustLevels
  BY <1>1 DEF UploadsFit
<1>6. EffectiveTrust(r, upload[b].trust) \in TrustLevels
  BY <1>4, <1>5 DEF EffectiveTrust
<1>7. ImportedEntry(m) \in LearnerEntry
  BY <1>4, <1>6 DEF ImportedEntry, LearnerEntry, RecordStatuses, SourceSystems
<1>8. MakesSense(ImportedEntry(m))
  BY <1>3, <1>4, <1>6 DEF ImportedEntry, MakesSense, ValidRow, TrustLevels
<1> QED
  BY <1>7, <1>8

LEMMA FreshEntryIsFresh ==
    ASSUME Entries # Stored
    PROVE  FreshEntry \in Entries /\ FreshEntry \notin Stored
  BY DEF FreshEntry, Stored

\* An entry is added.
Added(e, r) == e \in Entries \ Stored /\ r \in LearnerEntry /\ MakesSense(r)
               /\ entry' = [entry EXCEPT ![e] = r]

\* A handler that inserts adds the entry of a row that was queued.
LEMMA InsertsAdd ==
    ASSUME IInv, ImportInv, NEW w \in Workers, NEW m \in Jobs, Inserts(w, m)
    PROVE  /\ Added(FreshEntry, ImportedEntry(m)) /\ UNCHANGED <<edit, edits>>
           /\ origin' = [origin EXCEPT ![FreshEntry] = m] /\ row[m].status # "absent"
<1>1. m \in batch[w]
  BY DEF Inserts, Oldest
<1>2. row[m].status # "absent" /\ Uploaded(m)
  BY <1>1 DEF ImportInv, BatchesExist, RowsUploaded
<1>3. FreshEntry \in Entries /\ FreshEntry \notin Stored
  BY FreshEntryIsFresh DEF Inserts
<1>4. ImportedEntry(m) \in LearnerEntry /\ MakesSense(ImportedEntry(m))
  BY <1>2, QueuedMakesSense DEF ImportInv
<1> QED
  BY <1>2, <1>3, <1>4 DEF Inserts, NewEntry, Insert, Added

LEMMA AddedFits ==
    ASSUME RecordsFit, NEW e, NEW r, Added(e, r)
    PROVE  /\ entry' \in [Entries -> LearnerEntry \cup {NoRecord}]
           /\ RecordsMakeSense' /\ Stored' = Stored \cup {e}
<1>1. entry' \in [Entries -> LearnerEntry \cup {NoRecord}] /\ entry'[e] = r
      /\ \A d \in Entries \ {e} : entry'[d] = entry[d]
  BY DEF RecordsFit, Added
<1>2. r # NoRecord
  BY EntriesAreThere DEF Added
<1>3. Stored' = Stored \cup {e}
  BY <1>1, <1>2 DEF Stored, Added
<1>4. RecordsMakeSense'
  <2> SUFFICES ASSUME NEW d \in Stored'
               PROVE  MakesSense(entry'[d])
    BY DEF RecordsMakeSense, MakesSense
  <2> QED
    BY <1>1, <1>3 DEF RecordsFit, RecordsMakeSense, Added, Stored
<1> QED
  BY <1>1, <1>3, <1>4

\* An UPDATE of what was read and patched.
LEMMA WritesFit ==
    ASSUME RecordsFit, NEW c \in Editors, WriteEntry(c)
    PROVE  /\ RecordsFit'
           /\ Stored \subseteq Stored'
<1> DEFINE d == edit[c]
<1>1. /\ d.entry \in Entries /\ d.patch \in Patches /\ d.read \in LearnerEntry
      /\ MakesSense(Written(c))
  BY DEF RecordsFit, EditFits, WriteEntry, Written
<1>2. Written(c) \in LearnerEntry
  BY <1>1, MergedFits DEF Written
<1>3. Written(c) # NoRecord
  BY <1>2, EntriesAreThere
<1>4. /\ entry' \in [Entries -> LearnerEntry \cup {NoRecord}] /\ entry'[d.entry] = Written(c)
      /\ \A e \in Entries \ {d.entry} : entry'[e] = entry[e]
  BY <1>1, <1>2 DEF RecordsFit, WriteEntry
<1>5. Stored' = Stored \cup {d.entry}
  BY <1>1, <1>3, <1>4 DEF Stored
<1>6. RecordsMakeSense'
  <2> SUFFICES ASSUME NEW e \in Stored'
               PROVE  MakesSense(entry'[e])
    BY DEF RecordsMakeSense, MakesSense
  <2> QED
    BY <1>1, <1>4, <1>5 DEF RecordsFit, RecordsMakeSense, Stored
<1>7. edit' = [edit EXCEPT ![c] = IdleEdit]
  BY DEF WriteEntry
<1>8. /\ edit' \in [Editors -> [step: {"idle", "read", "write"}, entry: Entries \cup {NoEntry},
                             patch: Patches \cup {NoPatch}, read: LearnerEntry \cup {NoRecord}]]
      /\ \A b \in Editors : EditFits(edit'[b])
  BY <1>7 DEF RecordsFit, IdleEdit, EditFits
<1>9. (\A b \in Editors : EditFits(edit[b]))'
  BY <1>8
<1> QED
  BY <1>4, <1>5, <1>6, <1>8, <1>9 DEF RecordsFit

LEMMA RecordsFitStays ==
    ASSUME IInv, ImportInv, [AllNext]_allVars
    PROVE  RecordsFit' /\ Stored \subseteq Stored'
<1>1. CASE UNCHANGED recordVars
  BY <1>1 DEF recordVars, ImportInv, RecordsFit, RecordsMakeSense, Stored, EditFits, MakesSense,
              Merged
<1>2. ASSUME NEW e, NEW r, Added(e, r), UNCHANGED edit
      PROVE  RecordsFit' /\ Stored \subseteq Stored'
  <2>1. (\A c \in Editors : EditFits(edit[c]))'
    BY <1>2 DEF ImportInv, RecordsFit, EditFits, Merged, MakesSense
  <2> QED
    BY <1>2, <2>1, AddedFits DEF ImportInv, RecordsFit
<1>3. CASE CreateEntry
  <2>1. PICK r \in NewRecords : Insert(FreshEntry, r)
    BY <1>3 DEF CreateEntry
  <2>2. Added(FreshEntry, r) /\ UNCHANGED edit
    BY <1>3, <2>1, FreshEntryIsFresh, RequestsAssumption DEF CreateEntry, Insert, Added
  <2> QED
    BY <2>2, <1>2
<1>4. ASSUME NEW c \in Editors, NEW d, EditFits(d), edit' = [edit EXCEPT ![c] = d],
             d \in [step: {"idle", "read", "write"}, entry: Entries \cup {NoEntry},
                    patch: Patches \cup {NoPatch}, read: LearnerEntry \cup {NoRecord}],
             UNCHANGED entry
      PROVE  RecordsFit' /\ Stored \subseteq Stored'
  <2>1. edit' \in [Editors -> [step: {"idle", "read", "write"}, entry: Entries \cup {NoEntry},
                               patch: Patches \cup {NoPatch}, read: LearnerEntry \cup {NoRecord}]]
    BY <1>4 DEF ImportInv, RecordsFit
  <2>2. \A b \in Editors : edit'[b] = d \/ edit'[b] = edit[b]
    BY <1>4 DEF ImportInv, RecordsFit
  <2>3. \A b \in Editors : EditFits(edit'[b])
    BY <1>4, <2>2 DEF ImportInv, RecordsFit, EditFits, Merged, MakesSense
  <2> QED
    BY <1>4, <2>1, <2>3 DEF ImportInv, RecordsFit, RecordsMakeSense, Stored, MakesSense
<1>5. ASSUME NEW c \in Editors, NEW e \in Stored, NEW p \in Patches, AskPatch(c, e, p)
      PROVE  RecordsFit' /\ Stored \subseteq Stored'
  <2>1. PICK d : d = [step |-> "read", entry |-> e, patch |-> p, read |-> NoRecord]
    OBVIOUS
  <2> QED
    BY <1>4, <1>5, <2>1 DEF AskPatch, EditFits, Stored
<1>6. ASSUME NEW c \in Editors, edit' = [edit EXCEPT ![c] = IdleEdit], UNCHANGED entry
      PROVE  RecordsFit' /\ Stored \subseteq Stored'
  BY <1>4, <1>6 DEF IdleEdit, EditFits
<1>7. ASSUME NEW c \in Editors, ReadEntry(c)
      PROVE  RecordsFit' /\ Stored \subseteq Stored'
  <2>1. PICK r : r = entry[edit[c].entry]
    OBVIOUS
  <2>2. edit[c].entry \in Entries /\ edit[c].patch \in Patches
    BY <1>7 DEF ReadEntry, ImportInv, RecordsFit, EditFits
  <2>3. CASE r # NoRecord /\ MakesSense(Merged(r, edit[c].patch))
    <3>1. r \in LearnerEntry
      BY <2>1, <2>2, <2>3 DEF ImportInv, RecordsFit
    <3>2. PICK d : d = [edit[c] EXCEPT !.step = "write", !.read = r]
      OBVIOUS
    <3>3. edit' = [edit EXCEPT ![c] = d] /\ UNCHANGED entry
      BY <1>7, <2>1, <2>3, <3>2 DEF ReadEntry
    <3>4. /\ d \in [step: {"idle", "read", "write"}, entry: Entries \cup {NoEntry},
                    patch: Patches \cup {NoPatch}, read: LearnerEntry \cup {NoRecord}]
          /\ d.entry = edit[c].entry /\ d.patch = edit[c].patch /\ d.read = r
      BY <3>1, <3>2 DEF ImportInv, RecordsFit
    <3>5. EditFits(d)
      BY <2>2, <2>3, <3>1, <3>4 DEF EditFits
    <3> QED
      BY <1>4, <3>3, <3>4, <3>5
  <2>4. CASE ~(r # NoRecord /\ MakesSense(Merged(r, edit[c].patch)))
    BY <1>6, <1>7, <2>1, <2>4 DEF ReadEntry
  <2> QED
    BY <2>3, <2>4
<1>8. ASSUME NEW c \in Editors, WriteEntry(c)
      PROVE  RecordsFit' /\ Stored \subseteq Stored'
  BY <1>8, WritesFit DEF ImportInv
<1>9. ASSUME NEW c \in Editors, LoseEdit(c)
      PROVE  RecordsFit' /\ Stored \subseteq Stored'
  BY <1>6, <1>9 DEF LoseEdit
<1>10. CASE RecordNext
  BY <1>3, <1>5, <1>7, <1>8, <1>9, <1>10 DEF RecordNext
<1>11. ASSUME NEW w \in Workers, NEW m \in Jobs, Inserts(w, m)
       PROVE  RecordsFit' /\ Stored \subseteq Stored'
  BY <1>2, <1>11, InsertsAdd
<1> QED
  BY <1>1, <1>10, <1>11, ImportMoves DEF QueueRow, UploadBegins, UploadEnds, Finishes, GivesUp

\* The handler that finishes is of the row that its entry was imported from.
LEMMA FinishesOwn ==
    ASSUME ImportInv, NEW w \in Workers, NEW m \in Jobs, Finishes(w, m)
    PROVE  /\ made[w] \in Stored /\ origin[made[w]] = m
           /\ UNCHANGED <<entry, origin>> /\ made' = [made EXCEPT ![w] = Nothing]
           /\ \/ context' = context
              \/ context' = [context EXCEPT ![made[w]] = SmartContext(Candidate(m))]
<1>1. HandledRow(w) = m /\ m # Nothing
  BY ImportAssumption DEF Finishes
<1>2. made[w] # Nothing /\ origin[made[w]] = m
  BY <1>1 DEF HandledRow
<1>3. made[w] \in Stored
  BY <1>2 DEF ImportInv, OriginsFit
<1> QED
  BY <1>2, <1>3 DEF Finishes, WriteContext, recordVars

\* How a step changes what is known of one entry.
LEMMA EntryMoves ==
    ASSUME IInv, ImportInv, [AllNext]_allVars, NEW e \in Entries
    PROVE  \/ origin'[e] = origin[e] /\ context'[e] = context[e]
           \/ /\ origin[e] = Nothing /\ context'[e] = context[e]
              /\ e \in Stored' /\ origin'[e] \in Jobs /\ row[origin'[e]].status # "absent"
           \/ /\ origin'[e] = origin[e] /\ origin[e] \in Jobs
              /\ context'[e] = SmartContext(Candidate(origin[e]))
<1>1. ASSUME NEW w \in Workers, NEW m \in Jobs, Inserts(w, m)
      PROVE  \/ origin'[e] = origin[e] /\ context'[e] = context[e]
             \/ /\ origin[e] = Nothing /\ context'[e] = context[e]
                /\ e \in Stored' /\ origin'[e] \in Jobs /\ row[origin'[e]].status # "absent"
  <2>1. PICK f : f = FreshEntry
    OBVIOUS
  <2>2. /\ f \in Entries \ Stored /\ f \in Stored' /\ context' = context
        /\ origin' = [origin EXCEPT ![f] = m] /\ row[m].status # "absent"
    BY <1>1, <2>1, InsertsAdd, AddedFits DEF ImportInv, Added, Inserts
  <2>3. origin[f] = Nothing
    BY <2>2 DEF ImportInv, OriginsFit
  <2> QED
    BY <2>2, <2>3 DEF ImportInv, OriginsFit
<1>2. ASSUME NEW w \in Workers, NEW m \in Jobs, Finishes(w, m)
      PROVE  \/ origin'[e] = origin[e] /\ context'[e] = context[e]
             \/ /\ origin'[e] = origin[e] /\ origin[e] \in Jobs
                /\ context'[e] = SmartContext(Candidate(origin[e]))
  <2>1. /\ origin[made[w]] = m /\ origin' = origin
        /\ \/ context' = context
           \/ context' = [context EXCEPT ![made[w]] = SmartContext(Candidate(m))]
    BY <1>2, FinishesOwn
  <2>2. DOMAIN context = Entries
    BY DEF ImportInv, OriginsFit
  <2> QED
    BY <2>1, <2>2
<1>3. \/ UNCHANGED <<origin, context>>
      \/ \E w \in Workers, m \in Jobs : Inserts(w, m) \/ Finishes(w, m)
  BY ImportMoves DEF QueueRow, importVars, UploadBegins, UploadEnds, GivesUp
<1> QED
  BY <1>1, <1>2, <1>3

\* What was imported from where stays, and so does what was written of it.
LEMMA OriginsFitStays ==
    ASSUME IInv, ImportInv, [AllNext]_allVars
    PROVE  OriginsFit'
<1>1. Stored \subseteq Stored'
  BY RecordsFitStays
<1>2. /\ made \in [Workers -> Stored \cup {Nothing}]
      /\ origin \in [Entries -> Jobs \cup {Nothing}]
      /\ DOMAIN context = Entries
  BY DEF ImportInv, OriginsFit
<1>3. ASSUME NEW w \in Workers, NEW m \in Jobs, Inserts(w, m)
      PROVE  /\ made' \in [Workers -> Stored' \cup {Nothing}]
             /\ origin' \in [Entries -> Jobs \cup {Nothing}] /\ DOMAIN context' = Entries
  <2>1. PICK f : f = FreshEntry
    OBVIOUS
  <2>2. f \in Stored' /\ origin' = [origin EXCEPT ![f] = m]
    BY <1>3, <2>1, InsertsAdd, AddedFits DEF ImportInv
  <2>3. made' = [made EXCEPT ![w] = f] \/ made' = [made EXCEPT ![w] = Nothing]
    BY <1>3, <2>1 DEF Inserts
  <2>4. context' = context
    BY <1>3 DEF Inserts
  <2> QED
    BY <1>1, <1>2, <2>2, <2>3, <2>4
<1>4. ASSUME NEW w \in Workers, NEW m \in Jobs, Finishes(w, m)
      PROVE  /\ made' \in [Workers -> Stored' \cup {Nothing}]
             /\ origin' \in [Entries -> Jobs \cup {Nothing}] /\ DOMAIN context' = Entries
  BY <1>1, <1>2, <1>4, FinishesOwn
<1>5. ASSUME NEW w \in Workers, GivesUp(w)
      PROVE  /\ made' \in [Workers -> Stored' \cup {Nothing}]
             /\ origin' \in [Entries -> Jobs \cup {Nothing}] /\ DOMAIN context' = Entries
  BY <1>1, <1>2, <1>5 DEF GivesUp
<1>6. ASSUME UNCHANGED <<made, origin, context>>
      PROVE  /\ made' \in [Workers -> Stored' \cup {Nothing}]
             /\ origin' \in [Entries -> Jobs \cup {Nothing}] /\ DOMAIN context' = Entries
  <2>1. made \in [Workers -> Stored' \cup {Nothing}]
    BY <1>1, <1>2
  <2> QED
    BY <1>2, <1>6, <2>1
<1>7. /\ made' \in [Workers -> Stored' \cup {Nothing}]
      /\ origin' \in [Entries -> Jobs \cup {Nothing}] /\ DOMAIN context' = Entries
  <2>1. \/ UNCHANGED <<made, origin, context>>
        \/ \E w \in Workers : GivesUp(w) \/ \E m \in Jobs : Inserts(w, m) \/ Finishes(w, m)
    BY ImportMoves DEF QueueRow, importVars, UploadBegins, UploadEnds
  <2> QED
    BY <1>3, <1>4, <1>5, <1>6, <2>1
<1>8. ASSUME NEW e \in Entries, NEW m, m = origin'[e], m # Nothing
      PROVE  /\ e \in Stored' /\ row'[m].status # "absent"
             /\ context'[e] # Nothing => context'[e] = SmartContext(Candidate(m))'
  <2>1. m \in Jobs
    BY <1>7, <1>8
  <2>2. row[m].status # "absent" /\ e \in Stored'
    BY <1>1, <1>8, EntryMoves DEF ImportInv, OriginsFit
  <2>3. row'[m].status # "absent"
    BY <2>1, <2>2, RowsStay
  <2>4. SmartContext(Candidate(m))' = SmartContext(Candidate(m))
    BY <2>1, <2>2, UploadStays DEF ImportInv, RowsUploaded
  <2>5. context'[e] # Nothing => context'[e] = SmartContext(Candidate(m))
    BY <1>8, EntryMoves DEF ImportInv, OriginsFit
  <2> QED
    BY <2>2, <2>3, <2>4, <2>5
<1>9. ASSUME NEW e \in Entries, origin'[e] = Nothing
      PROVE  context'[e] = Nothing
  BY <1>9, EntryMoves, ImportAssumption DEF ImportInv, OriginsFit
<1>10. \A e \in Entries : context'[e] # Nothing =>
           origin'[e] # Nothing /\ context'[e] = SmartContext(Candidate(origin[e]))'
  <2> SUFFICES ASSUME NEW e \in Entries, context'[e] # Nothing
               PROVE  origin'[e] # Nothing /\ context'[e] = SmartContext(Candidate(origin[e]))'
    OBVIOUS
  <2>1. PICK m : m = origin'[e]
    OBVIOUS
  <2>2. m # Nothing /\ context'[e] = SmartContext(Candidate(m))'
    BY <1>8, <1>9, <2>1
  <2>3. Candidate(origin[e])' = Candidate(m)'
    BY <2>1 DEF Candidate
  <2> QED
    BY <2>1, <2>2, <2>3
<1>11. \A e \in Entries : origin'[e] # Nothing => e \in Stored' /\ row'[origin'[e]].status # "absent"
  BY <1>8
<1> QED
  BY <1>7, <1>10, <1>11 DEF OriginsFit

\* What has been imported stays so.
LEMMA ImportedStays ==
    ASSUME IInv, ImportInv, [AllNext]_allVars, NEW m \in Jobs, Imported(m)
    PROVE  Imported(m)'
<1>1. PICK e \in Entries : origin[e] = m /\ context[e] = SmartContext(Candidate(m))
  BY DEF Imported, EntriesOf
<1>2. m # Nothing
  BY ImportAssumption
<1>3. row[m].status # "absent"
  BY <1>1, <1>2 DEF ImportInv, OriginsFit
<1>4. SmartContext(Candidate(m))' = SmartContext(Candidate(m))
  BY <1>3, UploadStays DEF ImportInv, RowsUploaded
<1>5. origin'[e] = m /\ context'[e] = SmartContext(Candidate(m))
  BY <1>1, <1>2, EntryMoves
<1> QED
  BY <1>4, <1>5 DEF Imported, EntriesOf

\* A message that a processor is about to complete has been imported.
LEMMA ReturnsImport ==
    ASSUME IInv, ImportInv, [AllNext]_allVars, NEW w \in Workers, NEW m \in Jobs,
           phase'[w] = "complete", m \in job'[w]
    PROVE  Imported(m)'
<1>1. CASE phase[w] = "complete" /\ m \in job[w]
  BY <1>1, ImportedStays DEF ImportInv, ImportsDone
<1>2. (phase[w] = "complete" /\ m \in job[w]) \/ HandlerReturns(w, m)
  BY RunChanges, ImportIsQueue DEF ImportInv
<1>3. HandlerReturns(w, m) => phase[w] = "next"
  BY DEF HandlerReturns
<1>4. ASSUME NEW n \in Jobs, Finishes(w, n), HandlerReturns(w, n)
      PROVE  Imported(m)'
  <2>1. m = n
    BY <1>4 DEF HandlerReturns, IInv, TypeOK
  <2>2. made[w] \in Entries /\ origin'[made[w]] = m
    BY <1>4, <2>1, FinishesOwn DEF Stored
  <2>3. context' = [context EXCEPT ![made[w]] = SmartContext(Candidate(m))]
    BY <1>4, <2>1 DEF Finishes, WriteContext, HandlerReturns, HandlerThrows, IInv, TypeOK
  <2>4. context'[made[w]] = SmartContext(Candidate(m))
    BY <2>2, <2>3 DEF ImportInv, OriginsFit
  <2>5. row[m].status # "absent"
    BY <1>4, <2>1 DEF HandlerReturns, Oldest, ImportInv, BatchesExist
  <2>6. SmartContext(Candidate(m))' = SmartContext(Candidate(m))
    BY <2>5, UploadStays DEF ImportInv, RowsUploaded
  <2> QED
    BY <2>2, <2>4, <2>6 DEF Imported, EntriesOf
<1>5. ASSUME NEW v \in Workers, NEW n \in Jobs, HandlerThrows(v, n)
      PROVE  phase[w] = "complete"
  BY <1>5 DEF HandlerThrows, IInv, TypeOK
<1>6. ASSUME NEW v \in Workers, NEW n \in Jobs, Finishes(v, n)
      PROVE  phase[w] = "complete" \/ (v = w /\ HandlerReturns(v, n))
  BY <1>5, <1>6 DEF Finishes, HandlerReturns, IInv, TypeOK
<1>7. ASSUME NEW v \in Workers, NEW n \in Jobs, Inserts(v, n)
      PROVE  phase[w] = "complete"
  BY <1>5, <1>7 DEF Inserts, vars, workerVars
<1>8. ASSUME NEW v \in Workers, GivesUp(v)
      PROVE  phase[w] = "complete"
  BY <1>5, <1>8 DEF GivesUp, Crash, Forget, IInv, TypeOK
<1>9. ASSUME QueueStep
      PROVE  phase[w] = "complete"
  BY <1>9 DEF QueueStep, BeginRun, SelectCandidates, FetchBatch, EndRun, Forget, LeaseCandidate,
              CompleteJob, CompleteErrors, FailJob, OperatorStep, ListFailed, ResetRow, LoseRetry,
              Tick, workerVars, IInv, TypeOK
<1>10. CASE UNCHANGED phase
  BY <1>1, <1>2, <1>3, <1>10
<1>11. \/ UNCHANGED phase \/ QueueStep
       \/ \E v \in Workers : GivesUp(v) \/ \E n \in Jobs : Inserts(v, n) \/ Finishes(v, n)
  BY ImportMoves DEF QueueRow, Enqueue, UploadBegins, UploadEnds, vars, workerVars
<1> QED
  BY <1>1, <1>2, <1>3, <1>4, <1>6, <1>7, <1>8, <1>9, <1>10, <1>11

LEMMA ImportsDoneStays ==
    ASSUME IInv, IInv', ImportInv, [AllNext]_allVars
    PROVE  ImportsDone'
<1>1. ASSUME NEW m \in Jobs, row'[m].status = "completed"
      PROVE  Imported(m)'
  <2>1. row[m].status = "completed" => Imported(m)'
    BY ImportedStays DEF ImportInv, ImportsDone
  <2>2. ASSUME NEW w \in Workers, phase[w] = "complete", m \in job[w]
        PROVE  Imported(m)'
    BY <2>2, ImportedStays DEF ImportInv, ImportsDone
  <2>3. CASE [Works]_vars
    BY <1>1, <2>1, <2>2, <2>3, RowChanges DEF RowChange
  <2>4. ASSUME NEW b \in Batches, QueueRow(b)
        PROVE  row[m].status = "completed"
    <3>1. PICK n \in Unqueued(b) : Enqueue(<<b, n>>)
      BY <2>4 DEF QueueRow
    <3>2. row' = [row EXCEPT ![<<b, n>>] = [NoRow EXCEPT !.status = "pending",
                                   !.availableAt = now, !.createdAt = now]]
      BY <3>1 DEF Enqueue
    <3> QED
      BY <1>1, <3>2 DEF NoRow, IInv, TypeOK
  <2> QED
    BY <2>1, <2>3, <2>4, MovesWork
<1>2. ASSUME NEW w \in Workers, NEW m \in job'[w], phase'[w] = "complete"
      PROVE  Imported(m)'
  <2>1. m \in Jobs
    BY DEF IInv, TypeOK
  <2> QED
    BY <1>2, <2>1, ReturnsImport
<1> QED
  BY <1>1, <1>2 DEF ImportsDone

\* A processor that has inserted its row's entry has, until it is done with the row.
LEMMA HandledStays ==
    ASSUME IInv, ImportInv, [AllNext]_allVars, NEW v \in Workers, NEW m \in Jobs,
           HandledRow(v) = m
    PROVE  HandledRow(v)' = m \/ v \notin Owing(m)'
<1>1. made[v] # Nothing /\ made[v] \in Stored /\ origin[made[v]] = m
  BY ImportAssumption DEF HandledRow, ImportInv, OriginsFit
<1>2. CASE UNCHANGED <<made, origin>>
  BY <1>1, <1>2 DEF HandledRow
<1>3. ASSUME NEW w \in Workers, NEW n \in Jobs, Inserts(w, n)
      PROVE  HandledRow(v)' = m
  <2>1. PICK f : f = FreshEntry
    OBVIOUS
  <2>2. f \notin Stored /\ origin' = [origin EXCEPT ![f] = n]
    BY <1>3, <2>1, InsertsAdd DEF Added
  <2>3. w # v
    BY <1>1, <1>3 DEF Inserts
  <2>4. made' = [made EXCEPT ![w] = f] \/ made' = [made EXCEPT ![w] = Nothing]
    BY <1>3, <2>1 DEF Inserts
  <2>5. made'[v] = made[v]
    BY <2>3, <2>4 DEF ImportInv, OriginsFit
  <2>6. made[v] \in Entries /\ made[v] # f
    BY <1>1, <2>2 DEF Stored
  <2>7. origin'[made[v]] = m
    BY <1>1, <2>2, <2>6 DEF ImportInv, OriginsFit
  <2> QED
    BY <1>1, <2>5, <2>7 DEF HandledRow
<1>4. ASSUME NEW w \in Workers, w # v, made' = [made EXCEPT ![w] = Nothing], UNCHANGED origin
      PROVE  HandledRow(v)' = m
  BY <1>1, <1>4 DEF HandledRow, ImportInv, OriginsFit
<1>5. ASSUME NEW w \in Workers, NEW n \in Jobs, Finishes(w, n)
      PROVE  HandledRow(v)' = m \/ v \notin Owing(m)'
  <2>1. made' = [made EXCEPT ![w] = Nothing] /\ UNCHANGED origin /\ origin[made[w]] = n
    BY <1>5, FinishesOwn
  <2>2. CASE w = v
    <3>1. HandlerReturns(v, m) \/ HandlerThrows(v, m)
      BY <1>1, <1>5, <2>1, <2>2 DEF Finishes
    <3> QED
      BY <3>1, LeaseIsUsed
  <2>3. CASE w # v
    BY <1>4, <2>1, <2>3
  <2> QED
    BY <2>2, <2>3
<1>6. ASSUME NEW w \in Workers, GivesUp(w)
      PROVE  HandledRow(v)' = m \/ v \notin Owing(m)'
  <2>1. made' = [made EXCEPT ![w] = Nothing] /\ UNCHANGED origin
    BY <1>6 DEF GivesUp
  <2>2. CASE w # v
    BY <1>4, <2>1, <2>2
  <2>3. CASE w = v
    <3>1. Crash(v)
      BY <1>1, <1>6, <2>3 DEF GivesUp
    <3> QED
      BY <3>1 DEF Crash, Forget, Owing, IInv, TypeOK
  <2> QED
    BY <2>2, <2>3
<1> QED
  BY <1>2, <1>3, <1>5, <1>6, ImportMoves DEF QueueRow, importVars, UploadBegins, UploadEnds

\* Who has yet to insert is one of those that still have to run the handler.
LEMMA UnmadeMoves ==
    ASSUME IInv, ImportInv, [AllNext]_allVars, NEW m \in Jobs
    PROVE  \/ Unmade(m)' \subseteq Unmade(m) /\ leases'[m] = leases[m]
           \/ \E w \in Workers : /\ Unmade(m)' \subseteq Unmade(m) \cup {w}
                                 /\ leases'[m] = leases[m] + 1
<1>1. [Next]_vars
  BY ImportIsQueue DEF ImportInv
<1>2. ASSUME NEW v \in Unmade(m)'
      PROVE  v \in Owing(m)' /\ HandledRow(v) # m
  BY <1>2, HandledStays DEF Unmade, Owing
<1>3. ASSUME Owing(m)' \subseteq Owing(m)
      PROVE  Unmade(m)' \subseteq Unmade(m)
  BY <1>2, <1>3 DEF Unmade
<1>4. ASSUME NEW w \in Workers, Owing(m)' \subseteq Owing(m) \cup {w}
      PROVE  Unmade(m)' \subseteq Unmade(m) \cup {w}
  BY <1>2, <1>4 DEF Unmade
<1> QED
  BY <1>1, <1>3, <1>4, OwingMoves

\* An entry more, and a processor less that has yet to insert it.
LEMMA InsertIsUsed ==
    ASSUME IInv, IInv', ImportInv, [AllNext]_allVars, NEW w \in Workers, NEW m \in Jobs,
           Inserts(w, m)
    PROVE  InsertLeft(m)'
<1>1. /\ IsFiniteSet(Unmade(m))
      /\ Cardinality(EntriesOf(m)) + Cardinality(Unmade(m)) <= leases[m]
  BY DEF ImportInv, InsertsAreLeased, InsertLeft
<1>2. PICK f : f = FreshEntry
  OBVIOUS
<1>3. f \in Entries \ Stored /\ origin' = [origin EXCEPT ![f] = m]
  BY <1>2, InsertsAdd DEF Added
<1>4. m # Nothing
  BY ImportAssumption
<1>5. f \notin EntriesOf(m)
  BY <1>3, <1>4 DEF EntriesOf, ImportInv, OriginsFit
<1>6. EntriesOf(m)' = EntriesOf(m) \cup {f}
  BY <1>3 DEF EntriesOf, ImportInv, OriginsFit
<1>7. IsFiniteSet(EntriesOf(m))
  BY EntriesAssumption, FS_Subset DEF EntriesOf
<1>8. Cardinality(EntriesOf(m)') = Cardinality(EntriesOf(m)) + 1
  BY <1>5, <1>6, <1>7, FS_AddElement
<1>9. w \in Unmade(m)
  <2>1. w \in Owing(m)
    BY DEF Inserts, Owing, Oldest, IInv, RunState
  <2>2. HandledRow(w) = Nothing
    BY DEF Inserts, HandledRow
  <2> QED
    BY <1>4, <2>1, <2>2 DEF Unmade
<1>10. Unmade(m)' \subseteq Unmade(m) \ {w} /\ leases' = leases
  <2>1. CASE UNCHANGED vars /\ made' = [made EXCEPT ![w] = FreshEntry]
    <3>1. Owing(m)' = Owing(m) /\ leases' = leases
      BY <2>1 DEF vars, workerVars, historyVars, Owing
    <3>2. made'[w] = f
      BY <1>2, <2>1 DEF ImportInv, OriginsFit
    <3>3. HandledRow(w)' = m
      BY <1>3, <3>2, ImportAssumption DEF HandledRow, ImportInv, OriginsFit
    <3>4. \A v \in Unmade(m)' : HandledRow(v) # m
      BY HandledStays DEF Unmade, Owing
    <3> QED
      BY <3>1, <3>3, <3>4 DEF Unmade
  <2>2. CASE HandlerThrows(w, m)
    <3>1. Owing(m)' = Owing(m) \ {w} /\ leases' = leases
      BY <2>2, LeaseIsUsed
    <3>2. \A v \in Unmade(m)' : v \in Owing(m)' /\ HandledRow(v) # m
      BY HandledStays DEF Unmade, Owing
    <3> QED
      BY <3>1, <3>2 DEF Unmade
  <2> QED
    BY <2>1, <2>2 DEF Inserts
<1>11. /\ IsFiniteSet(Unmade(m) \ {w})
       /\ Cardinality(Unmade(m) \ {w}) = Cardinality(Unmade(m)) - 1
  BY <1>1, <1>9, FS_RemoveElement
<1>12. IsFiniteSet(Unmade(m)') /\ Cardinality(Unmade(m)') <= Cardinality(Unmade(m) \ {w})
  BY <1>10, <1>11, FS_Subset
<1>13. /\ Cardinality(Unmade(m)) \in Nat /\ Cardinality(Unmade(m)') \in Nat
       /\ Cardinality(EntriesOf(m)) \in Nat
  BY <1>1, <1>7, <1>12, FS_CardinalityType
<1>14. leases[m] \in Nat /\ leases'[m] = leases[m]
  BY <1>10 DEF IInv, TypeOK
<1> QED
  BY <1>1, <1>8, <1>11, <1>12, <1>13, <1>14 DEF InsertLeft

LEMMA InsertsAreLeasedStays ==
    ASSUME IInv, IInv', ImportInv, [AllNext]_allVars
    PROVE  InsertsAreLeased'
<1> SUFFICES ASSUME NEW m \in Jobs
             PROVE  InsertLeft(m)'
  BY DEF InsertsAreLeased
<1>1. /\ IsFiniteSet(Unmade(m))
      /\ Cardinality(EntriesOf(m)) + Cardinality(Unmade(m)) <= leases[m]
  BY DEF ImportInv, InsertsAreLeased, InsertLeft
<1>2. m # Nothing
  BY ImportAssumption
<1>3. CASE EntriesOf(m)' = EntriesOf(m)
  <2>1. IsFiniteSet(EntriesOf(m))
    BY EntriesAssumption, FS_Subset DEF EntriesOf
  <2>2. Cardinality(EntriesOf(m)) \in Nat /\ leases[m] \in Nat /\ leases'[m] \in Nat
    BY <2>1, FS_CardinalityType DEF IInv, TypeOK
  <2>3. PICK w : \/ Unmade(m)' \subseteq Unmade(m) /\ leases'[m] = leases[m]
                 \/ Unmade(m)' \subseteq Unmade(m) \cup {w} /\ leases'[m] = leases[m] + 1
    BY UnmadeMoves
  <2>4. /\ IsFiniteSet(Unmade(m)')
        /\ Cardinality(EntriesOf(m)) + Cardinality(Unmade(m)') <= leases'[m]
    BY <1>1, <2>2, <2>3, StaysWithin
  <2> QED
    BY <1>3, <2>4 DEF InsertLeft
<1>4. CASE UNCHANGED origin
  BY <1>3, <1>4 DEF EntriesOf
<1>5. ASSUME NEW w \in Workers, NEW n \in Jobs, Inserts(w, n)
      PROVE  InsertLeft(m)'
  <2>1. CASE n = m
    BY <1>5, <2>1, InsertIsUsed
  <2>2. CASE n # m
    <3>1. PICK f : f = FreshEntry
      OBVIOUS
    <3>2. f \in Entries \ Stored /\ origin' = [origin EXCEPT ![f] = n]
      BY <1>5, <3>1, InsertsAdd DEF Added
    <3>3. EntriesOf(m)' = EntriesOf(m)
      BY <1>2, <2>2, <3>2 DEF EntriesOf, ImportInv, OriginsFit
    <3> QED
      BY <1>3, <3>3
  <2> QED
    BY <2>1, <2>2
<1> QED
  BY <1>4, <1>5, ImportMoves DEF QueueRow, importVars, UploadBegins, UploadEnds, Finishes, GivesUp

-----------------------------------------------------------------------------

LEMMA ImportInitInv == ImportInit => IInv /\ ImportInv
<1> SUFFICES ASSUME ImportInit
             PROVE  IInv /\ ImportInv
  OBVIOUS
<1>1. Init /\ RecordInit
  BY DEF ImportInit
<1>2. IInv
  BY <1>1, InitInv
<1>3. UploadsFit
  BY DEF ImportInit, NoUpload, UploadsFit, TrustLevels
<1>4. /\ \A m \in Jobs : row[m].status = "absent" /\ leases[m] = 0
      /\ \A w \in Workers : batch[w] = {} /\ job[w] = {} /\ phase[w] = "idle"
  BY <1>1 DEF Init, NoRow
<1>5. RowsUploaded /\ BatchesExist /\ ImportsDone
  BY <1>4 DEF RowsUploaded, BatchesExist, ImportsDone
<1>6. OriginsFit
  BY DEF ImportInit, OriginsFit
<1>7. Stored = {}
  BY <1>1 DEF RecordInit, Stored
<1>8. RecordsFit
  BY <1>1, <1>7 DEF RecordInit, RecordsFit, RecordsMakeSense, IdleEdit, EditFits
<1>9. ASSUME NEW m \in Jobs
      PROVE  InsertLeft(m)
  <2>1. m # Nothing
    BY ImportAssumption
  <2>2. EntriesOf(m) = {} /\ Unmade(m) = {}
    BY <1>4, <2>1 DEF ImportInit, EntriesOf, Unmade, Owing
  <2>3. IsFiniteSet({}) /\ Cardinality({}) = 0
    BY FS_EmptySet
  <2> QED
    BY <1>4, <2>2, <2>3 DEF InsertLeft
<1> QED
  BY <1>2, <1>3, <1>5, <1>6, <1>8, <1>9 DEF ImportInv, InsertsAreLeased

LEMMA ImportStep ==
    ASSUME IInv, ImportInv, [AllNext]_allVars
    PROVE  IInv' /\ ImportInv'
<1>1. UploadsFit'
  BY UploadsFitStays DEF ImportInv
<1>2. IInv'
  BY ImportIsQueue, StepInv DEF ImportInv
<1>3. RowsUploaded' /\ BatchesExist' /\ OriginsFit' /\ RecordsFit'
  BY <1>2, RowsUploadedStays, BatchesExistStays, OriginsFitStays, RecordsFitStays
<1>4. ImportsDone' /\ InsertsAreLeased'
  BY <1>2, ImportsDoneStays, InsertsAreLeasedStays
<1> QED
  BY <1>1, <1>2, <1>3, <1>4 DEF ImportInv

\* The invariant of the queue and that of the imports over it hold throughout, whatever
\* uploads, processors, a retry and administrators' requests do at a time.
THEOREM ImportInvariance ==
    ImportSpec => [](IInv /\ ImportInv)
<1>1. ImportInit => IInv /\ ImportInv
  BY ImportInitInv
<1>2. IInv /\ ImportInv /\ [AllNext]_allVars => IInv' /\ ImportInv'
  BY ImportStep
<1> QED
  BY <1>1, <1>2, PTL DEF ImportSpec

\* The queue that imports run through is the queue of JobQueue: an import does nothing to
\* it that a client, a handler or the loss of a processor does not do.
THEOREM ImportsAreQueued == ImportSpec => Spec
<1>1. ImportInit => Init /\ UploadsFit
  BY DEF ImportInit, NoUpload, UploadsFit, TrustLevels
<1>2. UploadsFit /\ [AllNext]_allVars => UploadsFit' /\ [Next]_vars
  BY UploadsFitStays, ImportIsQueue
<1> QED
  BY <1>1, <1>2, PTL DEF ImportSpec, Spec

LEMMA ImportTypes == IInv /\ ImportInv => ImportTypeOK
<1> SUFFICES ASSUME IInv, ImportInv
             PROVE  ImportTypeOK
  OBVIOUS
<1>1. TypeOK
  BY DEF IInv
<1>2. RecordTypeOK
  <2> SUFFICES ASSUME NEW c \in Editors
               PROVE  /\ edit[c].step \in {"idle", "read", "write"}
                      /\ edit[c].entry \in Entries \cup {NoEntry}
                      /\ edit[c].read \in LearnerEntry \cup {NoRecord}
                      /\ edit[c].step = "write" => edit[c].read # NoRecord
    BY DEF RecordTypeOK, ImportInv, RecordsFit
  <2>1. edit[c].step = "write" => edit[c].read # NoRecord
    BY EntriesAreThere DEF ImportInv, RecordsFit, EditFits
  <2> QED
    BY <2>1 DEF ImportInv, RecordsFit
<1>3. \A b \in Batches : upload[b].step \in {"none", "previewed", "queueing", "answered", "lost"}
  BY DEF ImportInv, UploadsFit
<1>4. ASSUME NEW e \in Entries, origin[e] # Nothing
      PROVE  e \in Stored /\ origin[e] \in Queued
  <2>1. e \in Stored /\ origin[e] \in Jobs /\ row[origin[e]].status # "absent"
    BY <1>4 DEF ImportInv, OriginsFit
  <2>2. upload[origin[e][1]].step # "none"
    BY <2>1 DEF ImportInv, RowsUploaded, Uploaded
  <2> QED
    BY <2>1, <2>2 DEF Queued
<1>5. \A e \in Entries : context[e] # Nothing => origin[e] # Nothing
  BY DEF ImportInv, OriginsFit
<1>6. made \in [Workers -> Stored \cup {Nothing}]
  BY DEF ImportInv, OriginsFit
<1> QED
  BY <1>1, <1>2, <1>3, <1>4, <1>5, <1>6 DEF ImportTypeOK

LEMMA WithinLeases ==
    ASSUME IInv, ImportInv, NEW m \in Jobs
    PROVE  IsFiniteSet(EntriesOf(m)) /\ Cardinality(EntriesOf(m)) <= leases[m]
<1>1. /\ IsFiniteSet(Unmade(m))
      /\ Cardinality(EntriesOf(m)) + Cardinality(Unmade(m)) <= leases[m]
  BY DEF ImportInv, InsertsAreLeased, InsertLeft
<1>2. IsFiniteSet(EntriesOf(m))
  BY EntriesAssumption, FS_Subset DEF EntriesOf
<1>3. Cardinality(EntriesOf(m)) \in Nat /\ Cardinality(Unmade(m)) \in Nat /\ leases[m] \in Nat
  BY <1>1, <1>2, FS_CardinalityType DEF IInv, TypeOK
<1> QED
  BY <1>1, <1>2, <1>3

LEMMA OnceIfLeasedOnce == IInv /\ ImportInv => OnceUnlessRedelivered
<1> SUFFICES ASSUME IInv, ImportInv, NEW m \in Queued, row[m].status = "completed", leases[m] = 1
             PROVE  /\ Cardinality(EntriesOf(m)) = 1
                    /\ \A e \in EntriesOf(m) : context[e] = SmartContext(Candidate(m))
  BY DEF OnceUnlessRedelivered
<1>1. m \in Jobs
  BY DEF Queued
<1>2. PICK d \in EntriesOf(m) : context[d] = SmartContext(Candidate(m))
  BY <1>1 DEF ImportInv, ImportsDone, Imported
<1>3. IsFiniteSet(EntriesOf(m)) /\ Cardinality(EntriesOf(m)) <= 1
  BY <1>1, WithinLeases
<1>4. Cardinality(EntriesOf(m)) \in Nat /\ Cardinality(EntriesOf(m)) # 0
  BY <1>2, <1>3, FS_CardinalityType, FS_EmptySet
<1>5. Cardinality(EntriesOf(m)) = 1
  BY <1>3, <1>4
<1>6. PICK x : EntriesOf(m) = {x}
  BY <1>3, <1>5, FS_Singleton
<1> QED
  BY <1>2, <1>5, <1>6

\* When as many rows of a batch are completed as are valid, all of them are.
LEMMA AllAreCompleted ==
    ASSUME IInv, ImportInv, NEW b \in Batches, NEW L \in SUBSET Queued,
           RowsIn(L, b, {"completed"}) = Cardinality(ValidRows(b)), NEW k \in ValidRows(b)
    PROVE  row[<<b, k>>].status = "completed"
<1> DEFINE C == {m \in L : m[1] = b /\ row[m].status \in {"completed"}}
           T == {<<b, n>> : n \in ValidRows(b)}
<1>1. T \subseteq Jobs
  BY FileRows DEF ImportInv
<1>2. IsFiniteSet(T)
  BY <1>1, JobsAssumption, FS_Subset
<1>3. Cardinality(ValidRows(b)) = Cardinality(T)
  <2>1. PICK f : f = [t \in T |-> t[2]]
    OBVIOUS
  <2>2. f \in Bijection(T, ValidRows(b))
    <3>1. f \in [T -> ValidRows(b)]
      BY <2>1
    <3>2. ASSUME NEW s \in T, NEW t \in T, f[s] = f[t]
          PROVE  s = t
      BY <2>1, <3>2
    <3>3. ASSUME NEW n \in ValidRows(b)
          PROVE  \E t \in T : f[t] = n
      <4>1. <<b, n>> \in T /\ f[<<b, n>>] = n
        BY <2>1
      <4> QED
        BY <4>1
    <3>4. f \in Injection(T, ValidRows(b))
      BY <3>1, <3>2 DEF Injection, IsInjective
    <3>5. f \in Surjection(T, ValidRows(b))
      BY <3>1, <3>3 DEF Surjection
    <3> QED
      BY <3>4, <3>5 DEF Bijection
  <2> QED
    BY <1>2, <2>2, FS_Bijection DEF ExistsBijection
<1>4. C \subseteq T
  <2> SUFFICES ASSUME NEW m \in C
               PROVE  m \in T
    OBVIOUS
  <2>1. m \in Jobs /\ m[1] = b
    BY DEF Queued
  <2>2. m = <<b, m[2]>>
    BY <2>1, ImportAssumption
  <2>3. m[2] \in ValidRows(b)
    BY <2>1 DEF Queued, ImportInv, RowsUploaded, Uploaded
  <2> QED
    BY <2>2, <2>3
<1>5. Cardinality(C) = Cardinality(T)
  BY <1>3 DEF RowsIn
<1>6. C = T
  BY <1>2, <1>4, <1>5, FS_Subset
<1>7. <<b, k>> \in C
  BY <1>6
<1> QED
  BY <1>7

LEMMA DoneIsImported == IInv /\ ImportInv => DoneBatchIsImported
<1> SUFFICES ASSUME IInv, ImportInv, NEW n \in 1..Cardinality(Jobs), NEW L \in NewestFirst(n),
                    NEW b \in Batches, upload[b].step = "answered",
                    Summary(L, b).completedRows = Cardinality(ValidRows(b)),
                    NEW k \in ValidRows(b)
             PROVE  \E e \in EntriesOf(<<b, k>>) :
                        context[e] = SmartContext(Candidate(<<b, k>>))
  BY DEF DoneBatchIsImported
<1>1. L \in SUBSET Queued
  BY DEF NewestFirst
<1>2. RowsIn(L, b, {"completed"}) = Cardinality(ValidRows(b))
  BY DEF Summary
<1>3. row[<<b, k>>].status = "completed" /\ <<b, k>> \in Jobs
  BY <1>1, <1>2, AllAreCompleted, FileRows DEF ImportInv
<1> QED
  BY <1>3 DEF ImportInv, ImportsDone, Imported

\* Whatever the queue delivers twice or loses between the statements of
\* applyLearnerRecordImportQueuePayload, and whatever administrators create and patch
\* meanwhile: what was queued can be inserted, a row becomes no more entries than it was
\* leased, one if it was leased once and completed, and a batch shown as done is imported.
THEOREM ImportsAreWhole ==
    ImportSpec => []ImportedOnce
<1>1. ASSUME IInv, ImportInv
      PROVE  ImportedOnce
  <2>1. ImportTypeOK /\ OnceUnlessRedelivered /\ DoneBatchIsImported
    BY <1>1, ImportTypes, OnceIfLeasedOnce, DoneIsImported
  <2>2. RecordsMakeSense
    BY <1>1 DEF ImportInv, RecordsFit
  <2>3. VerifiedSectionIsSound
    <3> SUFFICES ASSUME NEW e \in Stored, Section(e) = "issuerVerifiedActive"
                 PROVE  /\ entry[e].sourceSystem # "learner_self_reported"
                        /\ entry[e].recordType # "supplemental_artifact"
                        /\ entry[e].status = "active"
      BY DEF VerifiedSectionIsSound
    <3>1. entry[e].status = "active" /\ entry[e].trustLevel = "issuer_verified"
      BY DEF Section, IsHistorical
    <3> QED
      BY <2>2, <3>1 DEF RecordsMakeSense, MakesSense
  <2>4. QueuedIsInsertable
    BY <1>1, QueuedMakesSense DEF QueuedIsInsertable, Queued, ImportInv, RowsUploaded
  <2>5. InsertsPerLease
    BY <1>1, WithinLeases DEF InsertsPerLease, Queued
  <2> QED
    BY <2>1, <2>2, <2>3, <2>4, <2>5 DEF ImportedOnce
<1> QED
  BY <1>1, ImportInvariance, PTL

\* However patches and imports overlap, an entry that is revoked stays so unless a patch
\* says otherwise or had read it before (updateLearnerRecordEntry writes all columns back).
THEOREM RevocationsAreKept ==
    ImportSpec => RevokedIsKept
<1> DEFINE Kept == \A e \in Stored :
                       entry[e].status = "revoked" /\ entry'[e].status # "revoked" =>
                           \E c \in Editors :
                               /\ edit[c].step = "write" /\ edit[c].entry = e
                               /\ "status" \in DOMAIN edit[c].patch \/ edit[c].read.status # "revoked"
<1>1. ASSUME IInv, ImportInv, [AllNext]_allVars
      PROVE  Kept
  <2>1. CASE UNCHANGED entry
    BY <2>1
  <2>2. ASSUME NEW e, NEW r, Added(e, r)
        PROVE  Kept
    BY <1>1, <2>2 DEF Added, ImportInv, RecordsFit, Stored
  <2>3. ASSUME NEW c \in Editors, WriteEntry(c)
        PROVE  Kept
    <3>1. /\ edit[c].step = "write" /\ edit[c].patch \in Patches /\ edit[c].read \in LearnerEntry
          /\ entry' = [entry EXCEPT ![edit[c].entry] = Merged(edit[c].read, edit[c].patch)]
      BY <1>1, <2>3 DEF WriteEntry, Written, ImportInv, RecordsFit, EditFits
    <3>2. "status" \notin DOMAIN edit[c].patch =>
              Merged(edit[c].read, edit[c].patch).status = edit[c].read.status
      BY <3>1, MergedFits
    <3> QED
      BY <1>1, <3>1, <3>2 DEF ImportInv, RecordsFit, Stored
  <2>4. ASSUME NEW r \in NewRecords, Entries # Stored, Insert(FreshEntry, r)
        PROVE  Kept
    <3>1. Added(FreshEntry, r)
      BY <2>4, FreshEntryIsFresh, RequestsAssumption DEF Insert, Added
    <3> QED
      BY <2>2, <3>1
  <2>5. ASSUME NEW w \in Workers, NEW m \in Jobs, Inserts(w, m)
        PROVE  Kept
    BY <1>1, <2>2, <2>5, InsertsAdd
  <2>6. ASSUME NEW c \in Editors,
               (\E e \in Stored, p \in Patches : AskPatch(c, e, p)) \/ ReadEntry(c) \/ LoseEdit(c)
        PROVE  Kept
    <3>1. UNCHANGED entry
      BY <2>6 DEF AskPatch, ReadEntry, LoseEdit
    <3> QED
      BY <2>1, <3>1
  <2>7. CASE RecordNext
    BY <2>3, <2>4, <2>6, <2>7 DEF RecordNext, CreateEntry
  <2> QED
    BY <1>1, <2>1, <2>5, <2>7, ImportMoves
    DEF QueueRow, UploadBegins, UploadEnds, Finishes, GivesUp, recordVars
<1>2. IInv /\ ImportInv /\ [AllNext]_allVars => [Kept]_recordVars
  BY <1>1
<1> QED
  BY <1>2, ImportInvariance, PTL DEF ImportSpec, RevokedIsKept

-----------------------------------------------------------------------------
(* Uploads of badges beside the queue (MigrationUpload).                   *)

migrationVars == <<vars, migration>>

\* What stands for an object is none of the values that stand for texts and ids.
ObjectsAreApart ==
    /\ PlainText # Undefined
    /\ \A r, b : [recipient |-> r, badge |-> b] \notin {Undefined, PlainText}
    /\ \A i, n, x : [id |-> i, name |-> n, issuer |-> x] \notin Ids \cup {Undefined, PlainText}
    /\ \A i, t, h : [identity |-> i, type |-> t, hashed |-> h] # Undefined
    /\ \A i, n, u : [id |-> i, name |-> n, url |-> u] # PlainText
    /\ \A n : <<"imported", n>> # Undefined

Exported(source, q) ==
    q = NoRequest \/ \E r, n : HoldsIds(r) /\ q = RowRequest(source, r, n)

Present(m) == row[m].status # "absent"

MigrationShape(g) ==
    /\ g = [step |-> g.step, source |-> g.source, dryRun |-> g.dryRun, rows |-> g.rows,
            reports |-> g.reports]
    /\ g.step \in {"none", "refused", "checking", "answered", "lost"}
    /\ g.dryRun \in BOOLEAN

\* Each report is of a row of the file and says what the row was found to be.
ReportsFit(g) ==
    /\ DOMAIN g.reports \subseteq DOMAIN g.rows
    /\ \A n \in DOMAIN g.reports : g.reports[n] = Report(g.rows[n], g.dryRun)
    /\ g.step = "none" => DOMAIN g.reports = {}
    /\ g.step = "answered" => DOMAIN g.reports = DOMAIN g.rows
    /\ g.source # "file_upload" => \A n \in DOMAIN g.rows : Exported(g.source, g.rows[n])

Reported(g, n) == n \in DOMAIN g.reports /\ g.reports[n].valid

\* The rows in the queue are those reported as valid, and perhaps the one at which the
\* request was lost.
QueueFits(g, b) ==
    /\ g.dryRun => \A m \in Jobs : m[1] = b => ~ Present(m)
    /\ ~ g.dryRun => /\ Supplied(b, g.rows)
                     /\ \E k : \A m \in Jobs : m[1] = b =>
                            /\ g.step # "lost" => (Present(m) <=> Reported(g, m[2]))
                            /\ Present(m) => Reported(g, m[2]) \/ m[2] = k

MigrationInv ==
    /\ migration = [b \in MigrationBatches |-> migration[b]]
    /\ \A b \in MigrationBatches : /\ MigrationShape(migration[b]) /\ ReportsFit(migration[b])
                                   /\ QueueFits(migration[b], b)

-----------------------------------------------------------------------------

LEMMA MigrationIsQueue ==
    ASSUME MigrationInv, NEW plans, [MigrationStep(plans)]_migrationVars
    PROVE  [Next]_vars
<1>1. ASSUME NEW b \in MigrationBatches, CheckMigrationRow(b) \/ LoseMigration(b)
      PROVE  [Next]_vars
  <2>1. \/ UNCHANGED vars
        \/ \E n \in DOMAIN migration[b].rows : ~ migration[b].dryRun /\ Enqueue(<<b, n>>)
    BY <1>1 DEF CheckMigrationRow, LoseMigration, QueuedUnlessDry, Unchecked
  <2>2. ~ migration[b].dryRun => Supplied(b, migration[b].rows)
    BY DEF MigrationInv, QueueFits
  <2> QED
    BY <2>1, <2>2 DEF Supplied, Next
<1>2. ASSUME NEW b \in MigrationBatches, AnswerMigration(b)
      PROVE  [Next]_vars
  BY <1>2 DEF AnswerMigration
<1>3. ASSUME NEW b \in MigrationBatches, NEW p \in plans, NEW dryRun \in BOOLEAN,
             UploadMigration(b, p[1], p[2], dryRun)
      PROVE  [Next]_vars
  BY <1>3 DEF UploadMigration
<1>4. ASSUME NEW w \in Workers, NEW m \in Jobs, HandleMigration(w, m)
      PROVE  [Next]_vars
  BY <1>4 DEF HandleMigration, Next, WorkerStep
<1>5. ASSUME QueueStep \/ \E w \in Workers : Crash(w)
      PROVE  [Next]_vars
  BY <1>5 DEF QueueStep, Next, WorkerStep
<1>6. CASE UNCHANGED migrationVars
  BY <1>6 DEF migrationVars
<1> QED
  BY <1>1, <1>2, <1>3, <1>4, <1>5, <1>6 DEF MigrationStep, MigrationNext

\* A row of the queue is there from its INSERT on.
LEMMA WorkKeepsPresent ==
    ASSUME IInv, [Works]_vars, NEW m \in Jobs
    PROVE  Present(m)' <=> Present(m)
  BY RowChanges DEF RowChange, Present

LEMMA EnqueueAdds ==
    ASSUME IInv, NEW m \in Jobs, Enqueue(m), NEW n \in Jobs
    PROVE  ~ Present(m) /\ (Present(n)' <=> (Present(n) \/ n = m))
  BY DEF Enqueue, Present, IInv, TypeOK, NoRow

-----------------------------------------------------------------------------
(* What each step makes of a batch. The others keep theirs.                *)

\* A step that leaves the batches alone, and adds no row to the queue.
LEMMA BatchesKept ==
    ASSUME MigrationInv, UNCHANGED migration, \A m \in Jobs : Present(m)' <=> Present(m)
    PROVE  MigrationInv'
<1> SUFFICES ASSUME NEW b \in MigrationBatches
             PROVE  QueueFits(migration[b], b)'
  BY DEF MigrationInv, MigrationShape, ReportsFit
<1> DEFINE g == migration[b]
<1>1. QueueFits(g, b) /\ migration'[b] = g
  BY DEF MigrationInv
<1>2. CASE g.dryRun
  BY <1>1, <1>2 DEF QueueFits
<1>3. CASE ~ g.dryRun
  <2>1. PICK k : \A m \in Jobs : m[1] = b =>
                     /\ g.step # "lost" => (Present(m) <=> Reported(g, m[2]))
                     /\ Present(m) => Reported(g, m[2]) \/ m[2] = k
    BY <1>1, <1>3 DEF QueueFits
  <2>2. \A m \in Jobs : m[1] = b =>
            /\ g.step # "lost" => (Present(m)' <=> Reported(g, m[2]))
            /\ Present(m)' => Reported(g, m[2]) \/ m[2] = k
    BY <2>1
  <2> QED
    BY <1>1, <1>3, <2>2 DEF QueueFits, Supplied, Reported
<1> QED
  BY <1>2, <1>3

\* A step of batch b, which may add rows of b only.
LEMMA BatchChanges ==
    ASSUME MigrationInv, NEW b \in MigrationBatches, NEW h,
           migration' = [migration EXCEPT ![b] = h],
           MigrationShape(h), ReportsFit(h), QueueFits(h, b)',
           \A m \in Jobs : m[1] # b => (Present(m)' <=> Present(m))
    PROVE  MigrationInv'
<1>1. migration'[b] = h /\ \A a \in MigrationBatches \ {b} : migration'[a] = migration[a]
  BY DEF MigrationInv
<1>2. migration' = [a \in MigrationBatches |-> migration'[a]]
  BY DEF MigrationInv
<1>3. ASSUME NEW a \in MigrationBatches \ {b}
      PROVE  QueueFits(migration[a], a)'
  <2> DEFINE g == migration[a]
  <2>1. QueueFits(g, a) /\ migration'[a] = g
    BY <1>1 DEF MigrationInv
  <2>2. \A m \in Jobs : m[1] = a => (Present(m)' <=> Present(m))
    OBVIOUS
  <2>3. CASE g.dryRun
    BY <2>1, <2>2, <2>3 DEF QueueFits
  <2>4. CASE ~ g.dryRun
    <3>1. PICK k : \A m \in Jobs : m[1] = a =>
                       /\ g.step # "lost" => (Present(m) <=> Reported(g, m[2]))
                       /\ Present(m) => Reported(g, m[2]) \/ m[2] = k
      BY <2>1, <2>4 DEF QueueFits
    <3>2. \A m \in Jobs : m[1] = a =>
              /\ g.step # "lost" => (Present(m)' <=> Reported(g, m[2]))
              /\ Present(m)' => Reported(g, m[2]) \/ m[2] = k
      BY <2>2, <3>1
    <3> QED
      BY <2>1, <2>4, <3>2 DEF QueueFits, Supplied, Reported
  <2> QED
    BY <2>3, <2>4
<1>4. ASSUME NEW a \in MigrationBatches
      PROVE  /\ MigrationShape(migration'[a]) /\ ReportsFit(migration'[a])
             /\ QueueFits(migration[a], a)'
  <2>1. CASE a = b
    <3>1. QueueFits(migration[b], b)'
      BY <1>1 DEF QueueFits, Supplied, Reported
    <3> QED
      BY <1>1, <2>1, <3>1
  <2>2. CASE a # b
    BY <1>1, <1>3, <2>2 DEF MigrationInv
  <2> QED
    BY <2>1, <2>2
<1> QED
  BY <1>2, <1>4 DEF MigrationInv, MigrationShape, ReportsFit

-----------------------------------------------------------------------------

LEMMA MigrationInitInv == Init /\ MigrationInit => MigrationInv
<1> SUFFICES ASSUME Init, MigrationInit
             PROVE  MigrationInv
  OBVIOUS
<1>1. migration = [b \in MigrationBatches |-> NoMigration]
  BY DEF MigrationInit
<1>2. \A m \in Jobs : ~ Present(m)
  BY DEF Init, Present, NoRow
<1>3. MigrationShape(NoMigration) /\ ReportsFit(NoMigration)
  BY DEF MigrationShape, ReportsFit, NoMigration
<1>4. ASSUME NEW b \in MigrationBatches
      PROVE  QueueFits(NoMigration, b)
  BY <1>2 DEF QueueFits, Supplied, Reported, NoMigration
<1> QED
  BY <1>1, <1>3, <1>4 DEF MigrationInv

\* The requests an export is written as.
LEMMA RowsAreExported ==
    ASSUME NEW plans, ExportsAreRead(plans), NEW p \in plans, p[1] # "file_upload",
           NEW n \in DataNumbers(p[1], p[2])
    PROVE  Exported(p[1], ParsedRows(p[1], p[2])[n])
<1> DEFINE line == Lines(p[2])[n]
<1>1. ParsedRows(p[1], p[2])[n] = RequestOf(p[1], p[2], line, n)
  BY DEF ParsedRows
<1>2. CASE line.is # "row"
  BY <1>1, <1>2 DEF RequestOf, Exported
<1>3. CASE line.is = "row"
  <2>1. HoldsIds(ExportRow(p[2], line))
    BY <1>3 DEF ExportsAreRead
  <2>2. ParsedRows(p[1], p[2])[n] = RowRequest(p[1], ExportRow(p[2], line), n)
    BY <1>1, <1>3 DEF RequestOf
  <2> QED
    BY <2>1, <2>2 DEF Exported
<1> QED
  BY <1>2, <1>3

LEMMA MigrationGoesTo ==
    ASSUME NEW g, MigrationShape(g), NEW step, NEW h, h = [g EXCEPT !.step = step]
    PROVE  h = [step |-> step, source |-> g.source, dryRun |-> g.dryRun, rows |-> g.rows,
                reports |-> g.reports]
  BY DEF MigrationShape

LEMMA UploadMigrationInv ==
    ASSUME IInv, MigrationInv, NEW plans, ExportsAreRead(plans), NEW p \in plans,
           NEW b \in MigrationBatches, NEW dryRun \in BOOLEAN,
           UploadMigration(b, p[1], p[2], dryRun)
    PROVE  MigrationInv'
<1> DEFINE g == migration[b]
           rows == ParsedRows(p[1], p[2])
           h == [step |-> "checking", source |-> p[1], dryRun |-> dryRun, rows |-> rows,
                 reports |-> <<>>]
<1>1. g.step = "none" /\ UNCHANGED vars
  BY DEF UploadMigration
<1>2. \A m \in Jobs : Present(m)' <=> Present(m)
  BY <1>1 DEF vars, Present
<1>3. \A m \in Jobs : m[1] = b => ~ Present(m)
  <2>1. ReportsFit(g) /\ QueueFits(g, b) /\ MigrationShape(g)
    BY DEF MigrationInv
  <2> QED
    BY <1>1, <2>1 DEF QueueFits, ReportsFit, MigrationShape, Reported
<1>4. CASE Readable(p[1], p[2])
  <2>1. dryRun \/ Supplied(b, rows)
    BY <1>4 DEF UploadMigration
  <2>2. migration' = [migration EXCEPT ![b] = h]
    BY <1>4 DEF UploadMigration, NoMigration
  <2>3. MigrationShape(h)
    BY DEF MigrationShape
  <2>4. ReportsFit(h)
    <3>1. DOMAIN rows = DataNumbers(p[1], p[2])
      BY DEF ParsedRows
    <3> QED
      BY <3>1, RowsAreExported DEF ReportsFit
  <2>5. QueueFits(h, b)'
    BY <1>2, <1>3, <2>1 DEF QueueFits, Reported, Supplied
  <2> QED
    BY <1>2, <2>2, <2>3, <2>4, <2>5, BatchChanges
<1>5. CASE ~ Readable(p[1], p[2])
  <2>1. PICK no, h0 : no = NoMigration /\ h0 = [no EXCEPT !.step = "refused"]
    OBVIOUS
  <2>2. MigrationShape(no) /\ no.dryRun = FALSE /\ no.rows = <<>> /\ no.reports = <<>>
    BY <2>1 DEF NoMigration, MigrationShape
  <2>3. h0 = [step |-> "refused", source |-> no.source, dryRun |-> no.dryRun, rows |-> no.rows,
              reports |-> no.reports]
    BY <2>1, <2>2, MigrationGoesTo
  <2>4. migration' = [migration EXCEPT ![b] = h0]
    BY <1>5, <2>1 DEF UploadMigration
  <2>5. MigrationShape(h0)
    BY <2>2, <2>3 DEF MigrationShape
  <2>6. ReportsFit(h0)
    BY <2>2, <2>3 DEF ReportsFit
  <2>7. QueueFits(h0, b)'
    BY <1>2, <1>3, <2>2, <2>3 DEF QueueFits, Reported, Supplied
  <2> QED
    BY <1>2, <2>4, <2>5, <2>6, <2>7, BatchChanges
<1> QED
  BY <1>4, <1>5

\* One more report.
LEMMA ReportsGrow ==
    ASSUME NEW g, ReportsFit(g), MigrationShape(g), g.step = "checking",
           NEW n \in DOMAIN g.rows \ DOMAIN g.reports,
           NEW h, h = [g EXCEPT !.reports = With(@, n, Report(g.rows[n], g.dryRun))]
    PROVE  /\ MigrationShape(h) /\ ReportsFit(h)
           /\ \A k : Reported(h, k) <=>
                         (Reported(g, k) \/ (k = n /\ RowOutcome(g.rows[n]) = "converted"))
           /\ h.step = "checking" /\ h.dryRun = g.dryRun /\ h.rows = g.rows
<1> DEFINE r == Report(g.rows[n], g.dryRun)
<1>1. PICK reports : reports = With(g.reports, n, r)
  OBVIOUS
<1>2. /\ DOMAIN reports = DOMAIN g.reports \cup {n} /\ reports[n] = r
      /\ \A k \in DOMAIN g.reports : reports[k] = g.reports[k]
  BY <1>1 DEF With
<1>3. h = [step |-> g.step, source |-> g.source, dryRun |-> g.dryRun, rows |-> g.rows,
           reports |-> reports]
  BY <1>1 DEF MigrationShape
<1>4. r.valid <=> RowOutcome(g.rows[n]) = "converted"
  BY DEF Report
<1>5. \A k : Reported(h, k) <=> (Reported(g, k) \/ (k = n /\ r.valid))
  BY <1>2, <1>3 DEF Reported
<1>6. ReportsFit(h)
  BY <1>2, <1>3 DEF ReportsFit
<1>7. MigrationShape(h)
  BY <1>3 DEF MigrationShape
<1> QED
  BY <1>3, <1>4, <1>5, <1>6, <1>7

LEMMA CheckMigrationRowInv ==
    ASSUME IInv, MigrationInv, NEW b \in MigrationBatches, CheckMigrationRow(b)
    PROVE  MigrationInv'
<1> DEFINE g == migration[b]
<1>1. MigrationShape(g) /\ ReportsFit(g) /\ QueueFits(g, b)
  BY DEF MigrationInv
<1>2. PICK n \in Unchecked(b) :
          /\ IF RowOutcome(g.rows[n]) = "converted" THEN QueuedUnlessDry(b, n) ELSE UNCHANGED vars
          /\ migration' = [migration EXCEPT ![b].reports = With(@, n, Report(g.rows[n], g.dryRun))]
  BY DEF CheckMigrationRow
<1>3. g.step = "checking" /\ n \in DOMAIN g.rows \ DOMAIN g.reports
  BY <1>2 DEF CheckMigrationRow, Unchecked
<1>4. PICK h : h = [g EXCEPT !.reports = With(@, n, Report(g.rows[n], g.dryRun))]
  OBVIOUS
<1>5. migration' = [migration EXCEPT ![b] = h]
  BY <1>2, <1>4
<1>6. /\ MigrationShape(h) /\ ReportsFit(h)
      /\ \A k : Reported(h, k) <=>
                    (Reported(g, k) \/ (k = n /\ RowOutcome(g.rows[n]) = "converted"))
      /\ h.step = "checking" /\ h.dryRun = g.dryRun /\ h.rows = g.rows
  BY <1>1, <1>3, <1>4, ReportsGrow
<1>7. CASE UNCHANGED vars /\ (g.dryRun \/ RowOutcome(g.rows[n]) # "converted")
  <2>1. \A m \in Jobs : Present(m)' <=> Present(m)
    BY <1>7 DEF vars, Present
  <2>2. QueueFits(h, b)'
    <3>1. CASE g.dryRun
      BY <1>1, <1>6, <2>1, <3>1 DEF QueueFits
    <3>2. CASE ~ g.dryRun
      <4>1. \A k : Reported(h, k) <=> Reported(g, k)
        BY <1>6, <1>7, <3>2
      <4>2. Supplied(b, g.rows) /\ \A m \in Jobs : m[1] = b => (Present(m) <=> Reported(g, m[2]))
        BY <1>1, <1>3, <3>2 DEF QueueFits
      <4>3. \A m \in Jobs : m[1] = b => (Present(m)' <=> Reported(h, m[2]))
        BY <2>1, <4>1, <4>2
      <4> QED
        BY <1>6, <3>2, <4>2, <4>3 DEF QueueFits, Supplied, Reported
    <3> QED
      BY <3>1, <3>2
  <2> QED
    BY <1>5, <1>6, <2>1, <2>2, BatchChanges
<1>8. CASE Enqueue(<<b, n>>) /\ ~ g.dryRun /\ RowOutcome(g.rows[n]) = "converted"
  <2>1. Supplied(b, g.rows) /\ \A m \in Jobs : m[1] = b => (Present(m) <=> Reported(g, m[2]))
    BY <1>1, <1>3, <1>8 DEF QueueFits
  <2>2. <<b, n>> \in Jobs
    BY <1>3, <2>1 DEF Supplied
  <2>3. \A m \in Jobs : Present(m)' <=> (Present(m) \/ m = <<b, n>>)
    BY <1>8, <2>2, EnqueueAdds
  <2>4. \A m \in Jobs : m = <<m[1], m[2]>>
    BY ImportAssumption
  <2>5. \A m \in Jobs : m[1] = b => (Present(m)' <=> Reported(h, m[2]))
    BY <1>6, <1>8, <2>1, <2>3, <2>4
  <2>6. QueueFits(h, b)'
    BY <1>6, <1>8, <2>1, <2>5 DEF QueueFits, Supplied, Reported
  <2>7. \A m \in Jobs : m[1] # b => (Present(m)' <=> Present(m))
    BY <2>3, <2>4
  <2> QED
    BY <1>5, <1>6, <2>6, <2>7, BatchChanges
<1> QED
  BY <1>2, <1>7, <1>8 DEF QueuedUnlessDry

LEMMA LoseMigrationInv ==
    ASSUME IInv, MigrationInv, NEW b \in MigrationBatches, LoseMigration(b)
    PROVE  MigrationInv'
<1> DEFINE g == migration[b]
<1>1. MigrationShape(g) /\ ReportsFit(g) /\ QueueFits(g, b) /\ g.step = "checking"
  BY DEF MigrationInv, LoseMigration
<1>2. PICK h : h = [g EXCEPT !.step = "lost"]
  OBVIOUS
<1>3. migration' = [migration EXCEPT ![b] = h]
  BY <1>2 DEF LoseMigration
<1>4. h = [step |-> "lost", source |-> g.source, dryRun |-> g.dryRun, rows |-> g.rows,
           reports |-> g.reports]
  BY <1>1, <1>2 DEF MigrationShape
<1>5. MigrationShape(h) /\ ReportsFit(h)
  BY <1>1, <1>4 DEF MigrationShape, ReportsFit
<1>6. \A k : Reported(h, k) <=> Reported(g, k)
  BY <1>4 DEF Reported
<1>7. CASE UNCHANGED vars
  <2>1. \A m \in Jobs : Present(m)' <=> Present(m)
    BY <1>7 DEF vars, Present
  <2>2. QueueFits(h, b)'
    <3>1. CASE g.dryRun
      BY <1>1, <1>4, <2>1, <3>1 DEF QueueFits
    <3>2. CASE ~ g.dryRun
      <4>1. Supplied(b, g.rows) /\ \A m \in Jobs : m[1] = b => (Present(m) <=> Reported(g, m[2]))
        BY <1>1, <3>2 DEF QueueFits
      <4>2. \A m \in Jobs : m[1] = b => (Present(m)' => Reported(h, m[2]))
        BY <1>6, <2>1, <4>1
      <4> QED
        BY <1>4, <3>2, <4>1, <4>2 DEF QueueFits, Supplied, Reported
    <3> QED
      BY <3>1, <3>2
  <2> QED
    BY <1>3, <1>5, <2>1, <2>2, BatchChanges
<1>8. ASSUME NEW n \in DOMAIN g.rows, ~ g.dryRun, Enqueue(<<b, n>>)
      PROVE  MigrationInv'
  <2>1. Supplied(b, g.rows) /\ \A m \in Jobs : m[1] = b => (Present(m) <=> Reported(g, m[2]))
    BY <1>1, <1>8 DEF QueueFits
  <2>2. <<b, n>> \in Jobs
    BY <2>1 DEF Supplied
  <2>3. \A m \in Jobs : Present(m)' <=> (Present(m) \/ m = <<b, n>>)
    BY <1>8, <2>2, EnqueueAdds
  <2>4. \A m \in Jobs : m = <<m[1], m[2]>>
    BY ImportAssumption
  <2>5. \A m \in Jobs : m[1] = b => (Present(m)' => Reported(h, m[2]) \/ m[2] = n)
    BY <1>6, <2>1, <2>3, <2>4
  <2>6. QueueFits(h, b)'
    BY <1>4, <1>8, <2>1, <2>5 DEF QueueFits, Supplied, Reported
  <2>7. \A m \in Jobs : m[1] # b => (Present(m)' <=> Present(m))
    BY <2>3, <2>4
  <2> QED
    BY <1>3, <1>5, <2>6, <2>7, BatchChanges
<1> QED
  BY <1>7, <1>8 DEF LoseMigration, Unchecked

LEMMA AnswerMigrationInv ==
    ASSUME IInv, MigrationInv, NEW b \in MigrationBatches, AnswerMigration(b)
    PROVE  MigrationInv'
<1> DEFINE g == migration[b]
<1>1. MigrationShape(g) /\ ReportsFit(g) /\ QueueFits(g, b) /\ g.step = "checking"
  BY DEF MigrationInv, AnswerMigration
<1>2. PICK h : h = [g EXCEPT !.step = "answered"]
  OBVIOUS
<1>3. migration' = [migration EXCEPT ![b] = h]
  BY <1>2 DEF AnswerMigration
<1>4. h = [step |-> "answered", source |-> g.source, dryRun |-> g.dryRun, rows |-> g.rows,
           reports |-> g.reports]
  BY <1>1, <1>2 DEF MigrationShape
<1>5. DOMAIN g.reports = DOMAIN g.rows
  BY <1>1 DEF AnswerMigration, Unchecked, ReportsFit
<1>6. MigrationShape(h) /\ ReportsFit(h)
  BY <1>1, <1>4, <1>5 DEF MigrationShape, ReportsFit
<1>7. \A k : Reported(h, k) <=> Reported(g, k)
  BY <1>4 DEF Reported
<1>8. \A m \in Jobs : Present(m)' <=> Present(m)
  BY DEF AnswerMigration, vars, Present
<1>9. QueueFits(h, b)'
  <2>1. CASE g.dryRun
    BY <1>1, <1>4, <1>8, <2>1 DEF QueueFits
  <2>2. CASE ~ g.dryRun
    <3>1. Supplied(b, g.rows) /\ \A m \in Jobs : m[1] = b => (Present(m) <=> Reported(g, m[2]))
      BY <1>1, <2>2 DEF QueueFits
    <3>2. \A m \in Jobs : m[1] = b => (Present(m)' <=> Reported(h, m[2]))
      BY <1>7, <1>8, <3>1
    <3> QED
      BY <1>4, <2>2, <3>1, <3>2 DEF QueueFits, Supplied, Reported
  <2> QED
    BY <2>1, <2>2
<1> QED
  BY <1>3, <1>6, <1>8, <1>9, BatchChanges

LEMMA MigrationStepInv ==
    ASSUME IInv, MigrationInv, NEW plans, ExportsAreRead(plans),
           [MigrationStep(plans)]_migrationVars
    PROVE  MigrationInv'
<1>1. ASSUME NEW w \in Workers, NEW m \in Jobs, HandleMigration(w, m)
      PROVE  MigrationInv'
  BY <1>1, WorkKeepsPresent, BatchesKept DEF HandleMigration, Works
<1>2. ASSUME QueueStep \/ \E w \in Workers : Crash(w), UNCHANGED migration
      PROVE  MigrationInv'
  BY <1>2, WorkKeepsPresent, BatchesKept DEF Works
<1>3. CASE UNCHANGED migrationVars
  BY <1>3, WorkKeepsPresent, BatchesKept DEF migrationVars
<1> QED
  BY <1>1, <1>2, <1>3, UploadMigrationInv, CheckMigrationRowInv, LoseMigrationInv,
     AnswerMigrationInv DEF MigrationStep, MigrationNext

THEOREM MigrationInvariance ==
    ASSUME NEW CONSTANT plans, ExportsAreRead(plans)
    PROVE  MigrationSpec(plans) => [](IInv /\ MigrationInv)
<1>1. Init /\ MigrationInit => IInv /\ MigrationInv
  BY InitInv, MigrationInitInv
<1>2. IInv /\ MigrationInv /\ [MigrationStep(plans)]_migrationVars => IInv' /\ MigrationInv'
  BY MigrationIsQueue, StepInv, MigrationStepInv
<1> QED
  BY <1>1, <1>2, PTL DEF MigrationSpec, migrationVars

-----------------------------------------------------------------------------
(* What follows of the batches.                                            *)

LEMMA QueuedRows ==
    ASSUME NEW b \in MigrationBatches, NEW n
    PROVE  /\ n \in QueuedNumbers(b) <=> \E m \in Jobs : m[1] = b /\ m[2] = n /\ Present(m)
           /\ n \in ValidReports(b) <=> Reported(migration[b], n)
  BY DEF QueuedNumbers, Present, ValidReports, Reported

\* The rows queued by an upload that queues are those reported as valid.
LEMMA QueuedIsValid ==
    ASSUME MigrationInv, NEW b \in MigrationBatches, ~ migration[b].dryRun,
           migration[b].step # "lost"
    PROVE  QueuedNumbers(b) = ValidReports(b)
<1> DEFINE g == migration[b]
<1>1. ReportsFit(g) /\ QueueFits(g, b)
  BY DEF MigrationInv
<1>2. Supplied(b, g.rows) /\ \A m \in Jobs : m[1] = b => (Present(m) <=> Reported(g, m[2]))
  BY <1>1 DEF QueueFits
<1>3. ASSUME NEW n \in QueuedNumbers(b)
      PROVE  n \in ValidReports(b)
  BY <1>2, <1>3, QueuedRows
<1>4. ASSUME NEW n \in ValidReports(b)
      PROVE  n \in QueuedNumbers(b)
  <2>1. Reported(g, n)
    BY <1>4, QueuedRows
  <2>2. n \in DOMAIN g.rows
    BY <1>1, <2>1 DEF ReportsFit, Reported
  <2>3. <<b, n>> \in Jobs
    BY <1>2, <2>2 DEF Supplied
  <2>4. Present(<<b, n>>)
    BY <1>2, <2>1, <2>3
  <2> QED
    BY <2>3, <2>4, QueuedRows
<1> QED
  BY <1>3, <1>4

LEMMA AtMostOneMore ==
    ASSUME MigrationInv, NEW b \in MigrationBatches, migration[b].step = "lost"
    PROVE  Cardinality(QueuedNumbers(b) \ ValidReports(b)) <= 1
<1> DEFINE g == migration[b]
           more == QueuedNumbers(b) \ ValidReports(b)
<1>1. PICK k : \A m \in Jobs : m[1] = b => (Present(m) => Reported(g, m[2]) \/ m[2] = k)
  <2>1. QueueFits(g, b) /\ g.dryRun \in BOOLEAN
    BY DEF MigrationInv, MigrationShape
  <2> QED
    BY <2>1 DEF QueueFits
<1>2. more \subseteq {k}
  BY <1>1, QueuedRows
<1>3. IsFiniteSet({k}) /\ Cardinality({k}) = 1
  BY FS_Singleton
<1>4. Cardinality(more) <= Cardinality({k})
  BY <1>2, <1>3, FS_Subset
<1> QED
  BY <1>3, <1>4

LEMMA QueuedIsReported == MigrationInv => QueuedAsReported
<1> SUFFICES ASSUME MigrationInv, NEW b \in MigrationBatches
             PROVE  /\ migration[b].dryRun => QueuedNumbers(b) = {}
                    /\ Told(b) /\ ~ migration[b].dryRun => QueuedNumbers(b) = ValidReports(b)
                    /\ Told(b) => DOMAIN migration[b].reports = DOMAIN migration[b].rows
                    /\ migration[b].step = "lost" =>
                           Cardinality(QueuedNumbers(b) \ ValidReports(b)) <= 1
  BY DEF QueuedAsReported
<1>1. ReportsFit(migration[b]) /\ QueueFits(migration[b], b)
  BY DEF MigrationInv
<1>2. migration[b].dryRun => QueuedNumbers(b) = {}
  BY <1>1, QueuedRows DEF QueueFits
<1>3. Told(b) => DOMAIN migration[b].reports = DOMAIN migration[b].rows
  BY <1>1 DEF ReportsFit, Told
<1> QED
  BY <1>2, <1>3, QueuedIsValid, AtMostOneMore DEF Told

LEMMA OutcomeConverted ==
    ASSUME NEW q
    PROVE  RowOutcome(q) = "converted" <=> ValidRequest(q) /\ Prepared(q).is = "converted"
  BY DEF RowOutcome

LEMMA ReportSays ==
    ASSUME NEW q, NEW d
    PROVE  /\ RowOutcome(q) = "converted" => Report(q, d).valid = TRUE
           /\ RowOutcome(q) # "converted" => Report(q, d).valid = FALSE
           /\ Report(q, d).valid => RowOutcome(q) = "converted"
           /\ RowOutcome(q) = "converted" => Report(q, d).conversion = Prepared(q).conversion
           /\ Report(q, d).preview = IF RowOutcome(q) = "converted" /\ d
                                     THEN DiffPreview(Prepared(q).conversion) ELSE NoPreview
  BY DEF Report

LEMMA PreviewsAreKept == MigrationInv => PreviewIsKept
<1> SUFFICES ASSUME MigrationInv
             PROVE  PreviewIsKept
  OBVIOUS
<1>1. ASSUME NEW b \in MigrationBatches, migration[b].dryRun, NEW n \in DOMAIN migration[b].reports
      PROVE  LET r == migration[b].reports[n]
             IN  DryRunAnswer(migration[b].rows[n]) = [valid |-> r.valid, preview |-> r.preview]
  <2> DEFINE q == migration[b].rows[n]
             r == migration[b].reports[n]
  <2>1. r = Report(q, TRUE)
    BY <1>1 DEF MigrationInv, MigrationShape, ReportsFit
  <2>2. CASE RowOutcome(q) = "converted"
    <3>1. r.valid = TRUE /\ r.preview = DiffPreview(Prepared(q).conversion)
      BY <2>1, <2>2, ReportSays
    <3>2. DryRunAnswer(q) = [valid |-> TRUE, preview |-> DiffPreview(Prepared(q).conversion)]
      BY <2>2, OutcomeConverted DEF DryRunAnswer
    <3> QED
      BY <3>1, <3>2
  <2>3. CASE RowOutcome(q) # "converted"
    <3>1. r.valid = FALSE /\ r.preview = NoPreview
      BY <2>1, <2>3, ReportSays
    <3>2. DryRunAnswer(q) = [valid |-> FALSE, preview |-> NoPreview]
      BY <2>3, OutcomeConverted DEF DryRunAnswer
    <3> QED
      BY <3>1, <3>2
  <2> QED
    BY <2>2, <2>3
<1>2. ASSUME NEW a \in MigrationBatches, NEW b \in MigrationBatches, Told(a), Told(b),
             ~ migration[b].dryRun, migration[a].rows = migration[b].rows
      PROVE  QueuedNumbers(b) = ValidReports(a)
  <2>1. /\ DOMAIN migration[a].reports = DOMAIN migration[b].reports
        /\ \A n \in DOMAIN migration[a].reports :
               /\ migration[a].reports[n] = Report(migration[a].rows[n], migration[a].dryRun)
               /\ migration[b].reports[n] = Report(migration[a].rows[n], migration[b].dryRun)
    BY <1>2 DEF MigrationInv, ReportsFit, Told
  <2>2. \A q, d, e : Report(q, d).valid = Report(q, e).valid
    BY DEF Report
  <2>3. \A n \in DOMAIN migration[a].reports :
            migration[a].reports[n].valid = migration[b].reports[n].valid
    BY <2>1, <2>2
  <2>4. ValidReports(a) = ValidReports(b)
    BY <2>1, <2>3 DEF ValidReports
  <2> QED
    BY <1>2, <2>4, QueuedIsValid DEF Told
<1> QED
  BY <1>1, <1>2 DEF PreviewIsKept

LEMMA CreatedSlugsAreFree == MigrationInv => PreviewedSlugIsFree
<1> SUFFICES ASSUME MigrationInv, NEW b \in MigrationBatches, NEW n \in DOMAIN migration[b].reports,
                    migration[b].reports[n].preview.template = "create", NEW t \in Templates
             PROVE  t.slug # SlugOf[migration[b].reports[n].conversion.title]
  BY DEF PreviewedSlugIsFree
<1> DEFINE q == migration[b].rows[n]
           r == migration[b].reports[n]
           c == Prepared(q).conversion
<1>1. r = Report(q, migration[b].dryRun)
  BY DEF MigrationInv, ReportsFit
<1>2. r.preview = NoPreview \/ (r.preview = DiffPreview(c) /\ r.conversion = c)
  BY <1>1 DEF Report
<1>3. r.preview # NoPreview
  BY DEF NoPreview
<1>4. TemplatesSeen(SlugOf[c.title]) = {}
  <2>1. TemplatesSeen(SlugOf[c.title]) # {} => DiffPreview(c).template = "update"
    BY DEF DiffPreview
  <2> QED
    BY <1>2, <1>3, <2>1
<1> QED
  BY <1>2, <1>3, <1>4 DEF TemplatesSeen

\* A conversion is of the award the request gives, if it gives one.
LEMMA ConvertedFrom ==
    ASSUME NEW q, Prepared(q).is = "converted", q.assertion # Undefined
    PROVE  \E given, issuer : Prepared(q).conversion \in Conversions(q.assertion, given, issuer)
<1>1. ASSUME NEW e, Converted(e).is = "converted"
      PROVE  Converted(e).conversion \in Conversions(e.assertion, e.badgeClass, e.issuer)
  <2> DEFINE found == IF e.assertion = Undefined THEN {}
                      ELSE Conversions(e.assertion, e.badgeClass, e.issuer)
  <2>1. found # {}
    BY <1>1 DEF Converted, Outcome
  <2>2. Converted(e).conversion = CHOOSE c \in found : TRUE
    BY <2>1 DEF Converted, Outcome
  <2>3. (CHOOSE c \in found : TRUE) \in found
    BY <2>1
  <2> QED
    BY <2>1, <2>2, <2>3
<1>2. \/ Prepared(q) = Converted(q)
      \/ \E p : Prepared(q) = Converted(PutTogether(q, p))
  BY DEF Prepared, Outcome
<1>3. \A p : PutTogether(q, p).assertion = q.assertion
  BY DEF PutTogether, OrElse
<1> QED
  BY <1>1, <1>2, <1>3

\* What a conversion keeps of an award.
LEMMA ConversionKeeps ==
    ASSUME NEW a, NEW given, NEW issuer, NEW c \in Conversions(a, given, issuer)
    PROVE  /\ a.recipient.hashed <=> c.recipientIdentityType = "email_sha256"
           /\ ~ a.recipient.hashed /\ a.recipient.type \notin {"email", "Email"} =>
                  /\ c.recipientIdentity = "did" => c.recipientIdentityType = "did"
                  /\ c.recipientIdentityType = "email" =>
                         c.recipientIdentity \in {"address", "mailto"}
           /\ a.badge \in Ids => c.badgeClassId \in {Undefined, a.badge}
<1> DEFINE r == a.recipient
           identity == NormalizedIdentity(r.identity, r.type, r.hashed)
<1>1. PICK k \in BadgeClassFor(a, given) :
          /\ c.recipientIdentity = identity /\ c.badgeClassId = k.id
          /\ c.recipientIdentityType = IdentityType(identity, r.type, r.hashed)
  BY DEF Conversions
<1>2. a.badge \in Ids => k.id \in {Undefined, a.badge}
  BY DEF BadgeClassFor, IsObject
<1>3. r.hashed <=> IdentityType(identity, r.type, r.hashed) = "email_sha256"
  BY DEF IdentityType
<1>4. ~ r.hashed /\ r.type \notin {"email", "Email"} =>
          /\ identity = "did" => IdentityType(identity, r.type, r.hashed) = "did"
          /\ IdentityType(identity, r.type, r.hashed) = "email" => identity \in {"address", "mailto"}
  BY DEF IdentityType
<1> QED
  BY <1>1, <1>2, <1>3, <1>4

LEMMA AwardsAreKept == MigrationInv => RecipientTypeIsKept /\ BadgeIsTheOneReferredTo
<1>1. ASSUME MigrationInv, NEW b \in MigrationBatches, NEW n \in ValidReports(b),
             migration[b].rows[n].assertion # Undefined
      PROVE  \E given, issuer : migration[b].reports[n].conversion
                 \in Conversions(migration[b].rows[n].assertion, given, issuer)
  <2> DEFINE q == migration[b].rows[n]
             r == migration[b].reports[n]
  <2>1. r = Report(q, migration[b].dryRun) /\ r.valid
    BY <1>1 DEF MigrationInv, ReportsFit, ValidReports
  <2>2. Prepared(q).is = "converted" /\ r.conversion = Prepared(q).conversion
    <3>1. PICK d : r = Report(q, d)
      BY <2>1
    <3>2. Report(q, d).valid
      BY <2>1, <3>1
    <3>3. RowOutcome(q) = "converted"
      BY <3>2, ReportSays
    <3>4. Report(q, d).conversion = Prepared(q).conversion
      BY <3>3, ReportSays
    <3>5. Prepared(q).is = "converted"
      BY <3>3, OutcomeConverted
    <3> QED
      BY <3>1, <3>4, <3>5
  <2> QED
    BY <1>1, <2>2, ConvertedFrom
<1>2. MigrationInv => RecipientTypeIsKept
  BY <1>1, ConversionKeeps DEF RecipientTypeIsKept
<1>3. MigrationInv => BadgeIsTheOneReferredTo
  BY <1>1, ConversionKeeps DEF BadgeIsTheOneReferredTo
<1> QED
  BY <1>2, <1>3

\* A row of an export that names its recipient converts, under its issuer's name.
LEMMA ExportConverts ==
    ASSUME ObjectsAreApart, NEW source, NEW r, NEW n, HoldsIds(r),
           NEW q, q = RowRequest(source, r, n), q.assertion.recipient.identity # Undefined
    PROVE  /\ ValidRequest(q) /\ Prepared(q).is = "converted"
           /\ q.issuer # Undefined => Prepared(q).conversion.issuerName = q.issuer.name
<1>1. PICK a, K, I, to : /\ K = RowBadgeClass(r, n) /\ to = Recipient(source, r)
                         /\ a = [recipient |-> to, badge |-> OrElse(r.badgeId, K)]
                         /\ I = IF IssuerReference(r) = Undefined THEN Undefined ELSE RowIssuer(r)
  OBVIOUS
<1>2. q.assertion = a /\ q.badgeClass = K /\ q.issuer = I /\ q.baked = Undefined
  BY <1>1 DEF RowRequest, NoRequest
<1>3. /\ K.id = r.badgeId /\ K.issuer = OrElse(IssuerReference(r), RowIssuer(r))
      /\ K.name # Undefined /\ K \notin Ids \cup {Undefined, PlainText}
  BY <1>1 DEF RowBadgeClass, OrElse, ObjectsAreApart
<1>4. a.recipient = to /\ a.badge = OrElse(r.badgeId, K) /\ a \notin {Undefined, PlainText}
  BY <1>1 DEF ObjectsAreApart
<1>5. to # Undefined /\ to.identity # Undefined
  BY <1>1, <1>2, <1>4 DEF Recipient, ObjectsAreApart
<1>6. I # PlainText
  BY <1>1 DEF RowIssuer, ObjectsAreApart
<1>7. ValidRequest(q)
  BY <1>2, <1>3, <1>4, <1>6 DEF ValidRequest
<1>8. BadgeClassFor(a, K) = {K}
  <2>1. CASE r.badgeId = Undefined
    BY <1>3, <1>4, <2>1 DEF BadgeClassFor, IsObject, OrElse
  <2>2. CASE r.badgeId \in Ids /\ r.badgeId # Undefined
    BY <1>3, <1>4, <2>2 DEF BadgeClassFor, IsObject, OrElse
  <2> QED
    BY <2>1, <2>2 DEF HoldsIds
<1>9. I # Undefined => IssuerFor(K, I) = I
  <2> SUFFICES ASSUME I # Undefined
               PROVE  IssuerFor(K, I) = I
    OBVIOUS
  <2>1. IssuerReference(r) # Undefined
    BY <1>1
  <2>2. IssuerReference(r) \in Ids
    BY <2>1 DEF IssuerReference, OrElse, HoldsIds
  <2>3. K.issuer = IssuerReference(r)
    BY <1>3, <2>1 DEF OrElse
  <2> QED
    BY <2>2, <2>3 DEF IssuerFor, IsObject
<1>10. PICK found : found = Conversions(a, K, I)
  OBVIOUS
<1>11. /\ found # {}
       /\ \A c \in found : I # Undefined => c.issuerName = I.name
  <2>1. {k \in BadgeClassFor(a, K) : k.name # Undefined} = {K}
    BY <1>3, <1>8
  <2>2. \E c \in found : TRUE
    BY <1>4, <1>5, <1>10, <2>1 DEF Conversions
  <2>3. \A c \in found : c.issuerName = IssuerField(IssuerFor(K, I), "name")
    BY <1>4, <1>5, <1>10, <2>1 DEF Conversions
  <2>4. I # Undefined => IssuerField(IssuerFor(K, I), "name") = I.name
    BY <1>9 DEF IssuerField
  <2> QED
    BY <2>2, <2>3, <2>4
<1>12. Prepared(q) = Outcome("converted", CHOOSE c \in found : TRUE)
  BY <1>2, <1>4, <1>10, <1>11 DEF Prepared, Converted
<1>13. (CHOOSE c \in found : TRUE) \in found
  BY <1>11
<1>14. Prepared(q).is = "converted" /\ Prepared(q).conversion \in found
  BY <1>12, <1>13 DEF Outcome
<1> QED
  BY <1>2, <1>7, <1>11, <1>14

LEMMA ExportsConvert == ObjectsAreApart /\ MigrationInv => ExportedRowsConvert
<1> SUFFICES ASSUME ObjectsAreApart, MigrationInv, NEW b \in MigrationBatches,
                    migration[b].source # "file_upload", NEW n \in DOMAIN migration[b].reports,
                    migration[b].rows[n].assertion # Undefined,
                    migration[b].rows[n].assertion.recipient.identity # Undefined
             PROVE  LET q == migration[b].rows[n]
                        r == migration[b].reports[n]
                    IN  /\ r.valid /\ ConvertStatus(q) = 200
                        /\ q.issuer # Undefined => r.conversion.issuerName = q.issuer.name
  BY DEF ExportedRowsConvert
<1>1. PICK q, d : q = migration[b].rows[n] /\ migration[b].reports[n] = Report(q, d)
  BY DEF MigrationInv, ReportsFit
<1>2. Exported(migration[b].source, q)
  BY <1>1 DEF MigrationInv, ReportsFit
<1>3. q # NoRequest
  BY <1>1 DEF NoRequest
<1>4. PICK r, k : HoldsIds(r) /\ q = RowRequest(migration[b].source, r, k)
  BY <1>2, <1>3 DEF Exported
<1>5. /\ ValidRequest(q) /\ Prepared(q).is = "converted"
      /\ q.issuer # Undefined => Prepared(q).conversion.issuerName = q.issuer.name
  BY <1>1, <1>4, ExportConverts
<1>6. ConvertStatus(q) = 200
  BY <1>5 DEF ConvertStatus
<1>7. RowOutcome(q) = "converted"
  BY <1>5, OutcomeConverted
<1>8. Report(q, d).valid = TRUE /\ Report(q, d).conversion = Prepared(q).conversion
  BY <1>7, ReportSays
<1> QED
  BY <1>1, <1>5, <1>6, <1>8

\* When as many rows of an answered batch are completed as were reported as valid, all
\* of them are.
LEMMA DoneIsHandled == IInv /\ MigrationInv => DoneBatchWasHandled
<1> SUFFICES ASSUME IInv, MigrationInv, NEW L \in SUBSET {m \in Jobs : row[m].status # "absent"},
                    NEW b \in MigrationBatches, Told(b), ~ migration[b].dryRun,
                    MigrationSummary(L, b).completedRows = Cardinality(ValidReports(b)),
                    NEW k \in QueuedNumbers(b)
             PROVE  effects[<<b, k>>] >= 1
  BY DEF DoneBatchWasHandled
<1> DEFINE C == {m \in L : m[1] = b /\ row[m].status \in {"completed"}}
           V == ValidReports(b)
           T == {<<b, n>> : n \in V}
<1>1. QueuedNumbers(b) = V
  BY QueuedIsValid DEF Told
<1>2. ASSUME NEW m \in Jobs
      PROVE  m = <<m[1], m[2]>>
  BY ImportAssumption
<1>3. T \subseteq Jobs
  BY <1>1, <1>2, QueuedRows
<1>4. IsFiniteSet(T)
  BY <1>3, JobsAssumption, FS_Subset
<1>5. Cardinality(V) = Cardinality(T)
  <2>1. PICK f : f = [t \in T |-> t[2]]
    OBVIOUS
  <2>2. f \in [T -> V] /\ \A s, t \in T : f[s] = f[t] => s = t
    BY <2>1
  <2>3. ASSUME NEW n \in V
        PROVE  \E t \in T : f[t] = n
    <3>1. <<b, n>> \in T /\ f[<<b, n>>] = n
      BY <2>1
    <3> QED
      BY <3>1
  <2>4. f \in Bijection(T, V)
    BY <2>2, <2>3 DEF Bijection, Injection, Surjection, IsInjective
  <2> QED
    BY <1>4, <2>4, FS_Bijection DEF ExistsBijection
<1>6. C \subseteq T
  BY <1>1, <1>2, QueuedRows DEF Present
<1>7. Cardinality(C) = Cardinality(T)
  BY <1>5 DEF MigrationSummary, MigrationRowsIn
<1>8. C = T
  BY <1>4, <1>6, <1>7, FS_Subset
<1>9. <<b, k>> \in C
  BY <1>1, <1>8
<1> QED
  BY <1>9 DEF IInv, CompletedMeansDone

\* Whatever the queue does meanwhile and wherever a request is lost: an upload queues the
\* rows it reports as valid and a dry run none, a dry run tells what the upload does, the
\* conversion keeps the recipient's type, the badge referred to and the issuer's name,
\* and a batch shown as done was handled row by row.
THEOREM MigrationsAsReported ==
    ASSUME ObjectsAreApart, NEW CONSTANT plans, ExportsAreRead(plans)
    PROVE  MigrationSpec(plans) => []MigratedAsReported
<1>1. IInv /\ MigrationInv => MigratedAsReported
  BY QueuedIsReported, PreviewsAreKept, CreatedSlugsAreFree, AwardsAreKept, ExportsConvert,
     DoneIsHandled DEF MigratedAsReported
<1> QED
  BY <1>1, MigrationInvariance, PTL
=============================================================================
