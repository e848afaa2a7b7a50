------------------------------ MODULE MCRetry ------------------------------
(* What retries achieve: a client repeats a failed issuance, a request     *)
(* that met a missing table is made again, a processor takes what another  *)
(* one lost.  The three share no state; each is explored by itself.        *)
EXTENDS BadgeIssuance, SchemaRepair

CONSTANTS
    q1, q2,
    Jobs, ImportJobs, Workers, Operators, Tokens, MaxAttempts, LeaseSeconds,
    RetryDelay, BatchLimit, MaxTime, MaxResets, MaxCrashes     \* those of JobQueue

VARIABLES
    focus,     \* what is explored: issuance, the queue, or requests of a database of some age
    row, now, phase, clock, token, todo, batch, job, picked, asked, overtaken, strayed,
    leases, effects, resets, crashes     \* those of JobQueue

Queue == INSTANCE JobQueue
queueVars == <<row, now, phase, clock, token, todo, batch, job, picked, asked, overtaken, strayed,
               leases, effects, resets, crashes>>

-----------------------------------------------------------------------------
(* What requests are made of a database migrated up to some file: two at a *)
(* time, or one that may be lost, or one during an upgrade.                *)

Plans == <<ListEvaluations, CreateEvaluation, CreateValueList, UpsertIssuer, ListIssuers,
           UpsertDeployment, UpsertPlacement, ListUnits, UpsertScope, CheckAccess, CreateGrant,
           CreatePreAuthorizedCode, CreateRefreshToken, ListSubjectCredentials,
           CreateDefaultProvider, RecordEngagement, EngagementRows, Overview, LedgerExport>>

Touches(i) == UNION {Plans[i][j].repairs : j \in DOMAIN Plans[i]}
Pairs == {p \in (DOMAIN Plans) \X (DOMAIN Plans) :
            p[1] <= p[2] /\ Touches(p[1]) \cap Touches(p[2]) # {}}
Single == {<<i, i>> : i \in DOMAIN Plans}

Repairs == ({22, 37} \X Pairs \X {"both"})
           \cup ({15, 22, 32, 37} \X Single \X {"lost"})
           \cup ({15, 37} \X Single \X {"upgrade"})

Of(r) == IF r = q1 THEN focus[2][1] ELSE focus[2][2]
Working(r) == focus[3] = "both" \/ r = q1
Ask(r) == Working(r) /\ BeginAsk(r, Plans[Of(r)])

-----------------------------------------------------------------------------
everything == <<focus, schemaVars, vars, queueVars>>

IssuancePart == focus = <<"issuance">>
QueuePart == focus = <<"queue">>
RepairPart == Len(focus) = 3

MCInit ==
    /\ focus \in {<<"issuance">>, <<"queue">>} \cup Repairs
    /\ Init
    /\ Queue!Init
    /\ SchemaInit(IF RepairPart THEN focus[1] ELSE LastFile)

IssuanceNext == IssuancePart /\ Next /\ UNCHANGED <<focus, schemaVars, queueVars>>

RepairNext ==
    /\ RepairPart
    /\ \/ \E r \in Askers : Ask(r) \/ RequestStep(r)
       \/ \E r \in Askers : focus[3] = "lost" /\ Lose(r)
       \/ focus[3] = "upgrade" /\ (StartUpgrade \/ MigrateStep)
    /\ UNCHANGED <<focus, vars, queueVars>>

QueueNext == QueuePart /\ Queue!LiveNext /\ UNCHANGED <<focus, schemaVars, vars>>

MCNext ==
    \/ IssuanceNext
    \/ RepairNext
    \/ QueueNext
    \/ UNCHANGED everything     \* a request that only reads

\* The fairness of BadgeIssuance and of JobQueue; a request that runs goes on, a client
\* repeats what failed.
MCSpec ==
    /\ MCInit /\ [][MCNext]_everything
    /\ \A r \in Requests :
            WF_everything(IssuancePart /\ Step(r) /\ UNCHANGED <<focus, schemaVars, queueVars>>)
    /\ \A k \in Keys :
            SF_everything(/\ IssuancePart
                          /\ \E r \in Requests, l \in Learners : Begin(r, k, l)
                          /\ UNCHANGED <<focus, schemaVars, queueVars>>)
    /\ \A r \in Askers : WF_everything(RepairPart /\ (Ask(r) \/ RequestStep(r))
                                       /\ UNCHANGED <<focus, vars, queueVars>>)
    /\ \A w \in Workers : WF_everything(QueuePart /\ Queue!WorkerStep(w)
                                        /\ UNCHANGED <<focus, schemaVars, vars>>)
    /\ WF_everything(QueuePart /\ Queue!SomeRowWaits /\ Queue!Tick
                     /\ UNCHANGED <<focus, schemaVars, vars>>)

-----------------------------------------------------------------------------
\* A repeated issuance is answered in the end, and the credentials it leaves are revoked one
\* by one (BadgeIssuance).
IssuanceIsAnswered == IssuancePart => RetriesAreAnswered

\* Every message settles in the end (JobQueue).
EveryMessageSettles == Queue!EveryMessageSettles

\* What repairs leave behind, whoever else repairs the same tables (SchemaRepair).
RepairsMend == SchemaTypeOK /\ OneGroupIsMended /\ KeyUnlessDisturbed

\* Retries leave things in order: of retried issuances no two share a bit of the status list,
\* and retried repairs leave what they were for.
RetriesLeaveOrder == BitMeansRevoked /\ RepairsMend

\* On a database that has the organisational units of migration 16, whatever else it lacks and
\* whatever an earlier repair left undone, a request that is repeated is answered in the end: no
\* repair stops for good before the table the request needs.  The list of evaluations is the
\* exception: on a database migrated by the files alone it names columns no file adds.
RepeatedIsServed ==
    \A r \in Askers :
        RepairPart /\ focus[1] > 16 /\ Working(r) /\ Plans[Of(r)] # ListEvaluations
            => <>(ask[r].at = "answered")
=============================================================================
